---- MODULE Spec2Model ----
(***************************************************************************)
(* A model of the agent-memory store: path validation, the workspace-state *)
(* adapter (WorkspaceStateStorage) and the encrypted-store adapter         *)
(* (SecretMemoryStorage) of src/src/storage.ts.                             *)
(*                                                                         *)
(* Strings are sequences of one-character strings, so that startsWith,     *)
(* slice, dirname, split and normalize are computed as the code computes   *)
(* them.                                                                   *)
(***************************************************************************)
EXTENDS Integers, Sequences, FiniteSets, TLC

VARIABLES
    adapter,        \* which IMemoryStorage implementation was constructed
    files,          \* WorkspaceStateStorage: memento 'files'  (path -> content)
    directories,    \* WorkspaceStateStorage: memento 'directories' (set of paths)
    accessTimes,    \* WorkspaceStateStorage: memento 'access'  (path -> time)
    modifiedTimes,  \* WorkspaceStateStorage: memento 'modified' (path -> time)
    tldrs,          \* WorkspaceStateStorage: memento 'tldr' (path -> summary)
    secrets,        \* SecretMemoryStorage: secret values of the file keys (raw path -> content)
    secretTldrs,    \* SecretMemoryStorage: secret values of the ':tldr' keys
    metadata,       \* SecretMemoryStorage: the metadata index (path -> entry)
    pinned,         \* PinManager: the pinned paths
    clock,          \* the value new Date() returns
    last,           \* the last call made on the adapter and how it ended
    pathIn,         \* path-function runs: the raw input path
    pathOut,        \* path-function runs: what getFullPath did with it
    textIn,         \* text-function runs: the function and its arguments
    textOut,        \* text-function runs: what the function returned or threw
    calls,          \* SecretMemoryStorage: the calls in flight, each with its position
    pending,        \* two adapters side by side: the call the second one has yet to make
    head,           \* BranchStateStorage: repo.state.HEAD.name, the branch checked out
    currentBranch,  \* BranchStateStorage: the field currentBranch
    namespaces,     \* BranchStateStorage: the memento's values under the other branches' keys
    logs,           \* MemoryActivityLogger: the field logs, newest first
    hostOut,        \* MemoryTool and AgentsMdSyncManager: how the last call on them ended
    agentsMd,       \* the workspace's AGENTS.md as vscode.workspace.fs holds it
    logged          \* logger runs: every entry handed to log since the last clear, newest first

vars == <<adapter, files, directories, accessTimes, modifiedTimes, tldrs,
          secrets, secretTldrs, metadata, pinned, clock, last, pathIn, pathOut,
          textIn, textOut, calls, pending, head, currentBranch, namespaces,
          logs, hostOut, agentsMd, logged>>

wsVars == <<files, directories, accessTimes, modifiedTimes, tldrs>>
secVars == <<secrets, secretTldrs, metadata>>
textVars == <<textIn, textOut>>
sideVars == <<calls, pending, head, currentBranch, namespaces>>
hostVars == <<logs, hostOut, agentsMd, logged>>

\* WorkspaceStateStorage and BranchStateStorage keep their records in the
\* memento; their operations are the same code (lines 100-515 and 700-1115)
MementoBacked == {"ws", "branch"}

-----------------------------------------------------------------------------
(* Bounds *)

\* No stored path grows beyond this many characters (a rename of a directory
\* into itself lengthens every path under it).
MaxPathLen == 15

\* Path-function runs: raw paths are built from at most this many tokens.
MaxTokens == 4

\* The adapter holds at most this many paths (the root included).
MaxStored == 3

\* No stored text grows beyond this many characters (insert lengthens a text).
MaxTextLen == 2

-----------------------------------------------------------------------------
(* Strings *)

\* s.slice(from) with a 0-based from
SliceFrom(s, from) == SubSeq(s, from + 1, Len(s))

\* s.startsWith(p)
StartsWith(s, p) == Len(p) <= Len(s) /\ SubSeq(s, 1, Len(p)) = p

\* s.endsWith(p)
EndsWith(s, p) == Len(p) <= Len(s) /\ SubSeq(s, Len(s) - Len(p) + 1, Len(s)) = p

\* s.includes(p)
Includes(s, p) == \E i \in 1..(Len(s) - Len(p) + 1) : SubSeq(s, i, i + Len(p) - 1) = p

\* s.split(sep) for a one-character separator: the list of pieces
RECURSIVE SplitChar(_, _)
SplitChar(s, sep) ==
    IF \A i \in 1..Len(s) : s[i] # sep
    THEN <<s>>
    ELSE LET i == CHOOSE k \in 1..Len(s) : s[k] = sep /\ \A j \in 1..(k - 1) : s[j] # sep
         IN  <<SubSeq(s, 1, i - 1)>> \o SplitChar(SubSeq(s, i + 1, Len(s)), sep)

\* pieces.join(sep)
RECURSIVE JoinWith(_, _)
JoinWith(pieces, sep) ==
    IF Len(pieces) = 0 THEN <<>>
    ELSE IF Len(pieces) = 1 THEN pieces[1]
    ELSE pieces[1] \o sep \o JoinWith(Tail(pieces), sep)

-----------------------------------------------------------------------------
(* Path validation: src/src/lib/pathValidation.ts *)

MEMORIES_DIR == <<"/", "m", "e", "m", "o", "r", "i", "e", "s">>

Slash == <<"/">>
DotDot == <<".", ".">>

\* The characters /[\x00-\x1f]/ matches, among the characters of the model.
ControlChars == {"\t", "\n"}

HexDigits == {"0", "1", "2", "3", "4", "5", "6", "7", "8", "9",
              "a", "b", "c", "d", "e", "f"}

HexVal(d) ==
    CASE d = "0" -> 0 [] d = "1" -> 1 [] d = "2" -> 2 [] d = "3" -> 3
      [] d = "4" -> 4 [] d = "5" -> 5 [] d = "6" -> 6 [] d = "7" -> 7
      [] d = "8" -> 8 [] d = "9" -> 9 [] d = "a" -> 10 [] d = "b" -> 11
      [] d = "c" -> 12 [] d = "d" -> 13 [] d = "e" -> 14 [] d = "f" -> 15

\* The character with a given code, for the codes whose characters the model
\* writes; any other 7-bit character is written "?".
CharOfCode(v) ==
    CASE v = 9 -> "\t" [] v = 10 -> "\n" [] v = 37 -> "%" [] v = 46 -> "."
      [] v = 47 -> "/" [] v = 97 -> "a" [] v = 98 -> "b" [] v = 102 -> "f"
      [] OTHER -> "?"

\* Whether decodeURIComponent throws URIError: a '%' not followed by two hex
\* digits, or an escape of a byte >= 0x80 (which no escape of the model's
\* paths continues to a complete UTF-8 sequence).
DecodeFails(s) ==
    \E i \in 1..Len(s) :
        /\ s[i] = "%"
        /\ \/ i + 2 > Len(s)
           \/ s[i + 1] \notin HexDigits
           \/ s[i + 2] \notin HexDigits
           \/ 16 * HexVal(s[i + 1]) + HexVal(s[i + 2]) >= 128

RECURSIVE DecodeEscapes(_)
DecodeEscapes(s) ==
    IF Len(s) = 0 THEN <<>>
    ELSE IF s[1] = "%"
         THEN <<CharOfCode(16 * HexVal(s[2]) + HexVal(s[3]))>> \o DecodeEscapes(SubSeq(s, 4, Len(s)))
         ELSE <<s[1]>> \o DecodeEscapes(Tail(s))

\* validateMemoryPath lines 14-19: decodeURIComponent, the raw string on failure
DecodeURIComponent(s) == IF DecodeFails(s) THEN s ELSE DecodeEscapes(s)

\* path.posix.normalize's normalizeString: '.' and '' segments dropped, '..'
\* removes the segment before it (kept when the path is relative and nothing
\* is left to remove).
RECURSIVE NormalizeSegments(_, _, _)
NormalizeSegments(segs, acc, allowAbove) ==
    IF Len(segs) = 0 THEN acc
    ELSE LET sg == Head(segs)
         IN  IF sg = <<>> \/ sg = <<".">>
             THEN NormalizeSegments(Tail(segs), acc, allowAbove)
             ELSE IF sg = DotDot
             THEN IF Len(acc) > 0 /\ acc[Len(acc)] # DotDot
                  THEN NormalizeSegments(Tail(segs), SubSeq(acc, 1, Len(acc) - 1), allowAbove)
                  ELSE IF allowAbove
                       THEN NormalizeSegments(Tail(segs), Append(acc, sg), allowAbove)
                       ELSE NormalizeSegments(Tail(segs), acc, allowAbove)
             ELSE NormalizeSegments(Tail(segs), Append(acc, sg), allowAbove)

\* path.posix.normalize
PosixNormalize(s) ==
    IF Len(s) = 0 THEN <<".">>
    ELSE LET isAbsolute == s[1] = "/"
             trailing   == s[Len(s)] = "/"
             body       == JoinWith(NormalizeSegments(SplitChar(s, "/"), <<>>, ~isAbsolute), Slash)
         IN  IF Len(body) = 0
             THEN IF isAbsolute THEN Slash
                  ELSE IF trailing THEN <<".", "/">> ELSE <<".">>
             ELSE (IF isAbsolute THEN Slash ELSE <<>>) \o body
                  \o (IF trailing THEN Slash ELSE <<>>)

\* path.posix.dirname
PosixDirname(s) ==
    IF Len(s) = 0 THEN <<".">>
    ELSE LET hasRoot == s[1] = "/"
             cuts == {i \in 2..Len(s) : s[i] = "/" /\ \E j \in (i + 1)..Len(s) : s[j] # "/"}
         IN  IF cuts = {} THEN (IF hasRoot THEN Slash ELSE <<".">>)
             ELSE LET end == CHOOSE i \in cuts : \A j \in cuts : j <= i
                  IN  IF hasRoot /\ end = 2 THEN <<"/", "/">>
                      ELSE SubSeq(s, 1, end - 1)

\* validateMemoryPath: "ok", or the error it throws
ValidateMemoryPath(memoryPath) ==
    LET normalized == PosixNormalize(DecodeURIComponent(memoryPath))
    IN  IF ~StartsWith(normalized, MEMORIES_DIR) THEN "InvalidPath"
        ELSE IF Includes(normalized, DotDot) THEN "InvalidPath"
        ELSE IF \E i \in 1..Len(memoryPath) : memoryPath[i] \in ControlChars THEN "InvalidPath"
        ELSE "ok"

IsValidPath(memoryPath) == ValidateMemoryPath(memoryPath) = "ok"

\* normalizeMemoryPath
NormalizeMemoryPath(memoryPath) ==
    IF EndsWith(memoryPath, Slash) /\ memoryPath # Slash
    THEN SubSeq(memoryPath, 1, Len(memoryPath) - 1)
    ELSE memoryPath

\* path.posix.join(MEMORIES_DIR, p)
JoinMemoriesDir(p) == PosixNormalize(MEMORIES_DIR \o Slash \o p)

\* WorkspaceStateStorage.getFullPath / SecretMemoryStorage.getFullPath, for a
\* path validateMemoryPath accepted
GetFullPath(memoryPath) ==
    LET normalized == NormalizeMemoryPath(memoryPath)
    IN  IF ~StartsWith(normalized, MEMORIES_DIR)
        THEN JoinMemoriesDir(normalized)
        ELSE normalized

-----------------------------------------------------------------------------
(* Text utilities: TextUtils in src/src/views.ts *)

\* text.split(oldStr).length - 1: the occurrences of oldStr found scanning
\* left to right without overlap; the empty separator splits between
\* characters (and ''.split('') is the empty list).
RECURSIVE CountSplit(_, _)
CountSplit(text, oldStr) ==
    IF Len(oldStr) = 0 THEN Len(text) - 1
    ELSE IF Len(text) < Len(oldStr) THEN 0
    ELSE IF SubSeq(text, 1, Len(oldStr)) = oldStr
         THEN 1 + CountSplit(SubSeq(text, Len(oldStr) + 1, Len(text)), oldStr)
         ELSE CountSplit(Tail(text), oldStr)

\* text.indexOf(oldStr), 0-based (called only when oldStr occurs)
IndexOf(text, oldStr) ==
    CHOOSE i \in 0..Len(text) :
        /\ SubSeq(text, i + 1, i + Len(oldStr)) = oldStr
        /\ \A j \in 0..(i - 1) : SubSeq(text, j + 1, j + Len(oldStr)) # oldStr

\* String.prototype.replace with a string pattern expands the replacement's
\* $$, $&, $` and $' (no capture groups exist, so $1 stays as written).
RECURSIVE ExpandReplacement(_, _, _, _)
ExpandReplacement(newStr, matched, before, after) ==
    IF Len(newStr) = 0 THEN <<>>
    ELSE IF newStr[1] = "$" /\ Len(newStr) >= 2 /\ newStr[2] \in {"$", "&", "`", "'"}
         THEN (CASE newStr[2] = "$" -> <<"$">>
                 [] newStr[2] = "&" -> matched
                 [] newStr[2] = "`" -> before
                 [] newStr[2] = "'" -> after)
              \o ExpandReplacement(SubSeq(newStr, 3, Len(newStr)), matched, before, after)
         ELSE <<newStr[1]>> \o ExpandReplacement(Tail(newStr), matched, before, after)

\* text.replace(oldStr, newStr)
StringReplace(text, oldStr, newStr) ==
    IF ~Includes(text, oldStr) THEN text
    ELSE LET i == IndexOf(text, oldStr)
             before == SubSeq(text, 1, i)
             after == SubSeq(text, i + Len(oldStr) + 1, Len(text))
         IN  before \o ExpandReplacement(newStr, oldStr, before, after) \o after

\* TextUtils.replaceFirst: [outcome, text], and the count its message states
ReplaceFirst(text, oldStr, newStr) ==
    LET count == CountSplit(text, oldStr)
    IN  IF count = 0 THEN [outcome |-> "NotFoundText", text |-> text, count |-> count]
        ELSE IF count > 1 THEN [outcome |-> "Ambiguous", text |-> text, count |-> count]
        ELSE [outcome |-> "ok", text |-> StringReplace(text, oldStr, newStr), count |-> count]

\* lines.splice(lineNumber, 0, insertText)
SpliceIn(lines, lineNumber, insertText) ==
    SubSeq(lines, 1, lineNumber) \o <<insertText>> \o SubSeq(lines, lineNumber + 1, Len(lines))

\* insertAtLine, had it refused to append after the last line
InsertAtLineNoAppend(text, lineNumber, insertText) ==
    LET lines == SplitChar(text, "\n")
    IN  IF lineNumber < 0 \/ lineNumber >= Len(lines)
        THEN [outcome |-> "InvalidLine", text |-> text]
        ELSE [outcome |-> "ok",
              text |-> JoinWith(SpliceIn(lines, lineNumber, insertText), <<"\n">>)]

\* TextUtils.insertAtLine: [outcome, text]
InsertAtLine(text, lineNumber, insertText) ==
    LET lines == SplitChar(text, "\n")
    IN  IF lineNumber < 0 \/ lineNumber > Len(lines)
        THEN [outcome |-> "InvalidLine", text |-> text]
        ELSE [outcome |-> "ok",
              text |-> JoinWith(SpliceIn(lines, lineNumber, insertText), <<"\n">>)]

\* the range insertAtLine's error message gives as valid: '1-${lines.length + 1}'
InvalidLineValidRange(text) == 1..(Len(SplitChar(text, "\n")) + 1)

\* Array.prototype.slice(start, end): a negative index counts from the end,
\* and both are clipped to the array
SliceIndex(len, k) == IF k < 0 THEN (IF len + k < 0 THEN 0 ELSE len + k)
                      ELSE (IF k > len THEN len ELSE k)

ArraySlice(list, start, end) ==
    LET from == SliceIndex(Len(list), start)
        to == SliceIndex(Len(list), end)
    IN  IF from >= to THEN <<>> ELSE SubSeq(list, from + 1, to)

\* TextUtils.extractLines
ExtractLines(text, start, end) ==
    JoinWith(ArraySlice(SplitChar(text, "\n"), start - 1, end), <<"\n">>)

\* String(n) for a natural number n
DigitChar(d) ==
    CASE d = 0 -> "0" [] d = 1 -> "1" [] d = 2 -> "2" [] d = 3 -> "3" [] d = 4 -> "4"
      [] d = 5 -> "5" [] d = 6 -> "6" [] d = 7 -> "7" [] d = 8 -> "8" [] d = 9 -> "9"

RECURSIVE StringOf(_)
StringOf(n) == IF n < 10 THEN <<DigitChar(n)>> ELSE StringOf(n \div 10) \o <<DigitChar(n % 10)>>

\* s.padStart(width, ' ')
RECURSIVE PadStart(_, _)
PadStart(str, width) == IF Len(str) >= width THEN str ELSE PadStart(<<" ">> \o str, width)

\* charCodeAt, for the characters of the model's branch names and stored
\* paths
CharCodeAt(c) ==
    CASE c = "!" -> 33 [] c = "-" -> 45 [] c = "." -> 46 [] c = "/" -> 47
      [] c = "@" -> 64 [] c = "B" -> 66 [] c = "a" -> 97 [] c = "b" -> 98
      [] c = "e" -> 101 [] c = "f" -> 102 [] c = "i" -> 105 [] c = "m" -> 109
      [] c = "o" -> 111 [] c = "r" -> 114 [] c = "s" -> 115

\* String.prototype.localeCompare on strings of '/', '.', '-' and ASCII
\* letters, in the collation of an English or root locale: the strings are
\* compared letter by letter with case ignored (punctuation before letters),
\* and only strings equal in that comparison are told apart by case, the
\* lowercase letter first at the first difference.
IsUpper(c) == CharCodeAt(c) \in 65..90

PrimaryWeight(c) == IF IsUpper(c) THEN CharCodeAt(c) + 32 ELSE CharCodeAt(c)

RECURSIVE ComparePrimary(_, _)
ComparePrimary(a, b) ==
    IF Len(a) = 0 \/ Len(b) = 0
    THEN (IF Len(a) = Len(b) THEN 0 ELSE IF Len(a) = 0 THEN -1 ELSE 1)
    ELSE IF PrimaryWeight(a[1]) < PrimaryWeight(b[1]) THEN -1
    ELSE IF PrimaryWeight(a[1]) > PrimaryWeight(b[1]) THEN 1
    ELSE ComparePrimary(Tail(a), Tail(b))

RECURSIVE CompareCase(_, _)
CompareCase(a, b) ==
    IF Len(a) = 0 \/ Len(b) = 0 THEN 0
    ELSE IF a[1] = b[1] THEN CompareCase(Tail(a), Tail(b))
    ELSE IF IsUpper(b[1]) THEN -1 ELSE 1

LocaleCompare(a, b) ==
    IF ComparePrimary(a, b) # 0 THEN ComparePrimary(a, b) ELSE CompareCase(a, b)

\* Array.prototype.sort with the comparator of listFiles, (a, b) =>
\* a.path.localeCompare(b.path): a stable sort, so an entry goes behind the
\* entries that do not compare greater
RECURSIVE InsertByPath(_, _)
InsertByPath(sorted, info) ==
    IF Len(sorted) = 0 THEN <<info>>
    ELSE IF LocaleCompare(sorted[Len(sorted)].path, info.path) <= 0 THEN Append(sorted, info)
    ELSE Append(InsertByPath(SubSeq(sorted, 1, Len(sorted) - 1), info), sorted[Len(sorted)])

RECURSIVE SortByPath(_)
SortByPath(infos) ==
    IF Len(infos) = 0 THEN <<>>
    ELSE InsertByPath(SortByPath(SubSeq(infos, 1, Len(infos) - 1)), infos[Len(infos)])

-----------------------------------------------------------------------------
(* JavaScript objects and Maps keep their keys in insertion order, and the  *)
(* adapters iterate over them while renaming: an ordered map is a record of *)
(* the key list k and the values v.                                         *)

EmptyMap == [k |-> <<>>, v |-> <<>>]

Has(m, key) == key \in DOMAIN m.v

\* m[key] = val / map.set(key, val): an existing key keeps its place
MapSet(m, key, val) ==
    [k |-> IF Has(m, key) THEN m.k ELSE Append(m.k, key),
     v |-> [x \in (DOMAIN m.v) \cup {key} |-> IF x = key THEN val ELSE m.v[x]]]

\* the key list without key
RECURSIVE Without(_, _)
Without(keys, key) ==
    IF Len(keys) = 0 THEN <<>>
    ELSE IF Head(keys) = key THEN Without(Tail(keys), key)
    ELSE <<Head(keys)>> \o Without(Tail(keys), key)

\* delete m[key] / map.delete(key)
MapDelete(m, key) ==
    [k |-> Without(m.k, key),
     v |-> [x \in (DOMAIN m.v) \ {key} |-> m.v[x]]]

\* keys.filter(pred) for the predicate "starts with prefix"
RECURSIVE KeysUnder(_, _)
KeysUnder(keys, prefix) ==
    IF Len(keys) = 0 THEN <<>>
    ELSE IF StartsWith(Head(keys), prefix)
         THEN <<Head(keys)>> \o KeysUnder(Tail(keys), prefix)
         ELSE KeysUnder(Tail(keys), prefix)

\* An unordered record (the access, modified and tldr mementos are never
\* iterated): a function.
FnSet(f, key, val) == [x \in (DOMAIN f) \cup {key} |-> IF x = key THEN val ELSE f[x]]
FnDelete(f, key) == [x \in (DOMAIN f) \ {key} |-> f[x]]

\* A key list as a set
KeySet(keys) == {keys[i] : i \in 1..Len(keys)}

-----------------------------------------------------------------------------
(* The calls the model makes *)

PathA == MEMORIES_DIR \o <<"/", "a">>
PathATrailing == PathA \o Slash
PathAF == PathA \o <<"/", "f">>
PathB == MEMORIES_DIR \o <<"/", "b">>
PathOutside == <<"/", "e", "t", "c">>
PathTraversal == MEMORIES_DIR \o <<"/", ".", ".", "/", "a">>
PathControl == PathA \o <<"\n">>

\* The raw paths handed to the adapters: the root, a directory or file name,
\* a nested name, a sibling, and a path outside the root.
Paths == {MEMORIES_DIR, PathA, PathAF, PathB, PathOutside}

\* The raw paths of the runs that also set summaries and pins: a name, a
\* nested name, and the three kinds of path validation rejects (outside the
\* root, a traversal out of the root, a control character).
MetaPaths == {PathA, PathAF, PathOutside, PathTraversal, PathControl}

\* The raw paths handed to the encrypted store: a name with and without a
\* trailing slash, a nested name, and a path outside the root.
SecretPaths == {PathA, PathATrailing, PathAF, PathOutside}

\* The raw paths of the runs with a path that omits the root segment: the
\* name alone, the same name under the root, and a nested name.
PathRelative == <<"a">>
RootedPaths == {PathRelative, PathA, PathAF}

\* The raw paths of the runs that list the store: a lowercase name, an
\* uppercase name, and a nested name.
PathUpper == MEMORIES_DIR \o <<"/", "B">>
ListPaths == {PathA, PathUpper, PathAF}

\* The raw paths of the runs that walk up the ancestors: the root itself,
\* two names, a nested name, and a path under a sibling of the root whose
\* name begins with the root's.
PathSibling == MEMORIES_DIR \o <<"X", "/", "f">>
AncestorPaths == {MEMORIES_DIR, PathA, PathAF, PathB, PathSibling}

AllPaths ==
    Paths \cup MetaPaths \cup SecretPaths \cup RootedPaths \cup ListPaths \cup AncestorPaths

ValidPaths == {p \in AllPaths : IsValidPath(p)}

\* getFullPath of every raw path it accepts, computed once
FullPaths == [p \in ValidPaths |-> GetFullPath(p)]

\* getFullPath's two outcomes on a raw path of the model: it throws
\* InvalidPath (validateMemoryPath), or returns the storage key
Accepts(memoryPath) == memoryPath \in ValidPaths
FullPathOf(memoryPath) == FullPaths[memoryPath]

\* File contents handed to create (the empty text included)
Contents == {<<>>, <<"x">>}

\* str_replace and insert arguments
OldStrs == {<<"x">>}
NewStrs == {<<"y">>}
InsertLines == {0, 2}
InsertTexts == {<<"y">>}

\* summaries handed to setTldr
Tldrs == {<<"t">>}

\* new Date(): the clock's current value
Now == clock

NoCall == [op |-> "none", outcome |-> "ok"]

\* no path function has run
NoKey == [fn |-> "none", outcome |-> "none", key |-> <<>>]

\* no text function is to run, or none has run
NoText == [fn |-> "none"]

\* no call is in flight, and no two calls have been in flight together
NoCalls == [active |-> <<>>, overlapped |-> FALSE]

\* the adapter is used alone, by one caller, outside source control: no call
\* is in flight, no second adapter waits, and no branch has a namespace
\* no call on the tool or on the sync manager yet
NoReturn == [fn |-> "none", outcome |-> "none"]

\* the workspace has no AGENTS.md
NoAgentsMd == [exists |-> FALSE, mirrored |-> {}]

Aside ==
    /\ calls = NoCalls
    /\ pending = NoCall
    /\ head = <<>>
    /\ currentBranch = <<>>
    /\ namespaces = <<>>
    /\ logs = <<>>
    /\ hostOut = NoReturn
    /\ agentsMd = NoAgentsMd
    /\ logged = <<>>

Call(op, outcome) == [op |-> op, outcome |-> outcome]

-----------------------------------------------------------------------------
(* PinManager: src/src/pinManager.ts *)

\* pinFile
PinFile(pins, path) == pins \cup {path}

\* unpinFile / removePinnedPath
UnpinFile(pins, path) == pins \ {path}

\* updatePinnedPath
UpdatePinnedPath(pins, oldPath, newPath) ==
    IF oldPath \in pins THEN PinFile(UnpinFile(pins, oldPath), newPath) ELSE pins

\* removePinnedPath for each path of a list, in order
RECURSIVE RemovePinnedPaths(_, _)
RemovePinnedPaths(pins, list) ==
    IF Len(list) = 0 THEN pins
    ELSE RemovePinnedPaths(UnpinFile(pins, Head(list)), Tail(list))

\* updatePinnedPath for each path of a list, in order, old prefix replaced by new
RECURSIVE UpdatePinnedPaths(_, _, _, _)
UpdatePinnedPaths(pins, list, oldFull, newFull) ==
    IF Len(list) = 0 THEN pins
    ELSE UpdatePinnedPaths(
             UpdatePinnedPath(pins, Head(list), newFull \o SliceFrom(Head(list), Len(oldFull))),
             Tail(list), oldFull, newFull)

-----------------------------------------------------------------------------
(* WorkspaceStateStorage: src/src/storage.ts lines 13-516.                  *)
(* Memento.get hands out the stored object itself, so what one level of     *)
(* ensureParentDirectories adds to it is seen by the level that called it.  *)

\* ensureParentDirectories recurses for ever (RangeError: Maximum call stack
\* size exceeded) when no ancestor up to '/' is a known directory: dirname('/')
\* is '/', which is never a directory.
RECURSIVE EnsureDiverges(_, _)
EnsureDiverges(dirs, filePath) ==
    LET parentDir == PosixDirname(filePath)
    IN  /\ parentDir \notin KeySet(dirs)
        /\ (parentDir = filePath \/ EnsureDiverges(dirs, parentDir))

\* ensureParentDirectories, when it returns: the directory list afterwards
RECURSIVE EnsureParentDirectories(_, _)
EnsureParentDirectories(dirs, filePath) ==
    LET parentDir == PosixDirname(filePath)
    IN  IF parentDir \in KeySet(dirs) THEN dirs
        ELSE LET above == EnsureParentDirectories(dirs, parentDir)
             IN  IF parentDir \in KeySet(above) THEN above ELSE Append(above, parentDir)

\* The paths ensureParentDirectories is called on after the first call, in
\* order, lines 111-117: the parent, its parent, and so on until one is a
\* known directory; cut off after `fuel` calls.
RECURSIVE AncestorWalk(_, _, _)
AncestorWalk(dirs, filePath, fuel) ==
    LET parentDir == PosixDirname(filePath)
    IN  IF fuel = 0 \/ parentDir \in KeySet(dirs) THEN <<>>
        ELSE <<parentDir>> \o AncestorWalk(dirs, parentDir, fuel - 1)

\* directories[key] = true
DirAdd(dirs, key) == IF key \in KeySet(dirs) THEN dirs ELSE Append(dirs, key)

\* view and readRaw, lines 123-125 and 198-200: the access time is written
\* before the path is looked up
WSTouch(fullPath) == FnSet(accessTimes, fullPath, Now)

\* view's outcome on the current store, lines 127-168
WSViewOutcome(memoryPath) ==
    IF ~Accepts(memoryPath) THEN "InvalidPath"
    ELSE LET fullPath == FullPathOf(memoryPath)
         IN  IF fullPath \in KeySet(directories) THEN "ok"
             ELSE IF Has(files, fullPath) THEN "ok"
             ELSE "NotFound"

\* readRaw's outcome on the current store, lines 202-206
WSReadRawOutcome(memoryPath) ==
    IF ~Accepts(memoryPath) THEN "InvalidPath"
    ELSE IF Has(files, FullPathOf(memoryPath)) THEN "ok"
    ELSE "NotFound"

\* the text readRaw returns, line 208
WSReadRawText(memoryPath) == files.v[FullPathOf(memoryPath)].content

\* the lines of view's file branch, lines 183-185: each line behind its number
RECURSIVE NumberLines(_, _)
NumberLines(displayLines, startNum) ==
    IF Len(displayLines) = 0 THEN <<>>
    ELSE <<PadStart(StringOf(startNum), 4) \o <<":", " ">> \o Head(displayLines)>>
             \o NumberLines(Tail(displayLines), startNum + 1)

\* what view returns for a file, lines 170-187; viewRange is <<>> when the
\* caller gave none
ViewFile(text, viewRange) ==
    LET lines == SplitChar(text, "\n")
        ranged == Len(viewRange) = 2
        startLine == IF ranged THEN (IF viewRange[1] > 1 THEN viewRange[1] ELSE 1) - 1 ELSE 0
        endLine == IF ranged /\ viewRange[2] # -1 THEN viewRange[2] ELSE Len(lines)
        displayLines == IF ranged THEN ArraySlice(lines, startLine, endLine) ELSE lines
    IN  JoinWith(NumberLines(displayLines, startLine + 1), <<"\n">>)

\* the name of a key directly under a directory, lines 137-141: the rest of
\* the key after the directory and a slash, when it holds no further slash
ChildName(key, fullPath) == SliceFrom(key, Len(fullPath) + 1)

IsChild(key, fullPath) ==
    /\ key # fullPath
    /\ StartsWith(key, fullPath \o Slash)
    /\ ~Includes(ChildName(key, fullPath), Slash)

\* what view returns: for a directory the path as given and the items
\* (sort() puts them in one order, so the listing is given by their set) or
\* the note that nothing has been created; for a file the numbered lines
Listing(memoryPath, items, emptyNote) ==
    [isDirectory |-> TRUE, text |-> memoryPath, items |-> items, emptyNote |-> emptyNote]

Rendering(text) == [isDirectory |-> FALSE, text |-> text, items |-> {}, emptyNote |-> FALSE]

\* the text view returns when it succeeds, lines 127-187
WSViewText(memoryPath) ==
    LET fullPath == FullPathOf(memoryPath)
        items == {ChildName(d, fullPath) \o Slash :
                      d \in {k \in KeySet(directories) : IsChild(k, fullPath)}}
                   \cup {ChildName(f, fullPath) : f \in {k \in DOMAIN files.v : IsChild(k, fullPath)}}
    IN  IF fullPath \in KeySet(directories)
        THEN Listing(memoryPath, items, items = {} /\ fullPath = MEMORIES_DIR)
        ELSE Rendering(ViewFile(files.v[fullPath].content, <<>>))

\* view, had it written the access time before validating the path
WSViewUnvalidated(memoryPath) ==
    /\ adapter \in MementoBacked
    /\ last' = Call("view", WSViewOutcome(memoryPath))
    /\ accessTimes' = FnSet(accessTimes, memoryPath, Now)
    /\ UNCHANGED <<files, directories, modifiedTimes, tldrs, pinned>>

WSView(memoryPath) ==
    /\ adapter \in MementoBacked
    /\ last' = Call("view", WSViewOutcome(memoryPath))
    /\ IF ~Accepts(memoryPath)
       THEN UNCHANGED accessTimes
       ELSE accessTimes' = WSTouch(FullPathOf(memoryPath))
    /\ UNCHANGED <<files, directories, modifiedTimes, tldrs, pinned>>

WSReadRaw(memoryPath) ==
    /\ adapter \in MementoBacked
    /\ last' = Call("readRaw", WSReadRawOutcome(memoryPath))
    /\ IF ~Accepts(memoryPath)
       THEN UNCHANGED accessTimes
       ELSE accessTimes' = WSTouch(FullPathOf(memoryPath))
    /\ UNCHANGED <<files, directories, modifiedTimes, tldrs, pinned>>

\* create's outcome, lines 212-215
WSCreateOutcome(memoryPath) ==
    IF ~Accepts(memoryPath) THEN "InvalidPath"
    ELSE IF EnsureDiverges(directories, FullPathOf(memoryPath)) THEN "RangeError"
    ELSE "ok"

WSCreate(memoryPath, content) ==
    /\ adapter \in MementoBacked
    /\ last' = Call("create", WSCreateOutcome(memoryPath))
    /\ IF last'.outcome # "ok"
       THEN UNCHANGED <<files, directories, accessTimes, modifiedTimes>>
       ELSE LET fullPath == FullPathOf(memoryPath)
            IN  /\ directories' = EnsureParentDirectories(directories, fullPath)
                /\ files' = MapSet(files, fullPath, [content |-> content, modified |-> Now])
                /\ accessTimes' = FnSet(accessTimes, fullPath, Now)
                /\ modifiedTimes' = FnSet(modifiedTimes, fullPath, Now)
    /\ UNCHANGED <<tldrs, pinned>>

\* strReplace and insert share everything but the text function, lines 232-280
WSEditOutcome(memoryPath, edited) ==
    IF ~Accepts(memoryPath) THEN "InvalidPath"
    ELSE IF ~Has(files, FullPathOf(memoryPath)) THEN "NotFound"
    ELSE edited.outcome

\* strReplace and insert, had they written the modification time before
\* editing the text
WSEditStampedFirst(op, memoryPath, edited) ==
    /\ adapter \in MementoBacked
    /\ last' = Call(op, WSEditOutcome(memoryPath, edited))
    /\ IF last'.outcome \in {"InvalidPath", "NotFound"}
       THEN UNCHANGED <<files, accessTimes, modifiedTimes>>
       ELSE LET fullPath == FullPathOf(memoryPath)
            IN  /\ files' = IF last'.outcome = "ok"
                            THEN MapSet(files, fullPath, [content |-> edited.text, modified |-> Now])
                            ELSE files
                /\ accessTimes' = FnSet(accessTimes, fullPath, Now)
                /\ modifiedTimes' = FnSet(modifiedTimes, fullPath, Now)
    /\ UNCHANGED <<directories, tldrs, pinned>>

WSEdit(op, memoryPath, edited) ==
    /\ adapter \in MementoBacked
    /\ last' = Call(op, WSEditOutcome(memoryPath, edited))
    /\ IF last'.outcome # "ok"
       THEN UNCHANGED <<files, accessTimes, modifiedTimes>>
       ELSE LET fullPath == FullPathOf(memoryPath)
            IN  /\ files' = MapSet(files, fullPath, [content |-> edited.text, modified |-> Now])
                /\ accessTimes' = FnSet(accessTimes, fullPath, Now)
                /\ modifiedTimes' = FnSet(modifiedTimes, fullPath, Now)
    /\ UNCHANGED <<directories, tldrs, pinned>>

\* the text of the file at a raw path, the empty text when there is none
WSTextAt(memoryPath) ==
    IF Accepts(memoryPath) /\ Has(files, FullPathOf(memoryPath))
    THEN WSReadRawText(memoryPath) ELSE <<>>

WSStrReplace(memoryPath, oldStr, newStr) ==
    WSEdit("str_replace", memoryPath, ReplaceFirst(WSTextAt(memoryPath), oldStr, newStr))

WSInsert(memoryPath, insertLine, insertText) ==
    WSEdit("insert", memoryPath, InsertAtLine(WSTextAt(memoryPath), insertLine, insertText))

\* delete every key of a list from an ordered map / a list / a function
RECURSIVE MapDeleteAll(_, _)
MapDeleteAll(m, list) ==
    IF Len(list) = 0 THEN m ELSE MapDeleteAll(MapDelete(m, Head(list)), Tail(list))

RECURSIVE WithoutAll(_, _)
WithoutAll(keys, list) ==
    IF Len(list) = 0 THEN keys ELSE WithoutAll(Without(keys, Head(list)), Tail(list))

RECURSIVE FnDeleteAll(_, _)
FnDeleteAll(f, list) ==
    IF Len(list) = 0 THEN f ELSE FnDeleteAll(FnDelete(f, Head(list)), Tail(list))

\* delete's outcome, lines 283-351
WSDeleteOutcome(memoryPath) ==
    IF ~Accepts(memoryPath) THEN "InvalidPath"
    ELSE LET fullPath == FullPathOf(memoryPath)
         IN  IF fullPath \in KeySet(directories) \/ Has(files, fullPath) THEN "ok"
             ELSE "NotFound"

\* delete of a directory, lines 287-324
WSDeleteDirectory(fullPath) ==
    LET filesToDelete == KeysUnder(files.k, fullPath \o Slash)
        dirsToDelete == KeysUnder(directories, fullPath \o Slash)
    IN  /\ files' = MapDeleteAll(files, filesToDelete)
        /\ accessTimes' = FnDeleteAll(accessTimes, filesToDelete)
        /\ modifiedTimes' = FnDeleteAll(modifiedTimes, filesToDelete)
        /\ tldrs' = FnDeleteAll(tldrs, filesToDelete)
        /\ pinned' = RemovePinnedPaths(pinned, filesToDelete)
        /\ directories' = IF fullPath # MEMORIES_DIR
                          THEN Without(WithoutAll(directories, dirsToDelete), fullPath)
                          ELSE WithoutAll(directories, dirsToDelete)

\* delete of a file, had it left the pin of the file in place
WSDeleteFileKeepingPin(fullPath) ==
    /\ files' = MapDelete(files, fullPath)
    /\ accessTimes' = FnDelete(accessTimes, fullPath)
    /\ modifiedTimes' = FnDelete(modifiedTimes, fullPath)
    /\ tldrs' = FnDelete(tldrs, fullPath)
    /\ UNCHANGED <<pinned, directories>>

\* delete of a file, lines 326-348
WSDeleteFile(fullPath) ==
    /\ files' = MapDelete(files, fullPath)
    /\ accessTimes' = FnDelete(accessTimes, fullPath)
    /\ modifiedTimes' = FnDelete(modifiedTimes, fullPath)
    /\ tldrs' = FnDelete(tldrs, fullPath)
    /\ pinned' = UnpinFile(pinned, fullPath)
    /\ UNCHANGED directories

WSDelete(memoryPath) ==
    /\ adapter \in MementoBacked
    /\ last' = Call("delete", WSDeleteOutcome(memoryPath))
    /\ IF last'.outcome # "ok"
       THEN UNCHANGED <<files, directories, accessTimes, modifiedTimes, tldrs, pinned>>
       ELSE IF FullPathOf(memoryPath) \in KeySet(directories)
            THEN WSDeleteDirectory(FullPathOf(memoryPath))
            ELSE WSDeleteFile(FullPathOf(memoryPath))

\* times[new] = times[old]; delete times[old], when times[old] is set
FnMove(f, oldKey, newKey) ==
    IF oldKey \in DOMAIN f THEN FnDelete(FnSet(f, newKey, f[oldKey]), oldKey) ELSE f

\* files[new] = files[old]; delete files[old]
MapMove(m, oldKey, newKey) == MapDelete(MapSet(m, newKey, m.v[oldKey]), oldKey)

\* the loop of lines 408-431 over filesToMove, on the files object
RECURSIVE MapMoveAll(_, _, _, _)
MapMoveAll(m, list, oldFull, newFull) ==
    IF Len(list) = 0 THEN m
    ELSE MapMoveAll(MapMove(m, Head(list), newFull \o SliceFrom(Head(list), Len(oldFull))),
                    Tail(list), oldFull, newFull)

\* the same loop, on the access, modified and tldr records
RECURSIVE FnMoveAll(_, _, _, _)
FnMoveAll(f, list, oldFull, newFull) ==
    IF Len(list) = 0 THEN f
    ELSE FnMoveAll(FnMove(f, Head(list), newFull \o SliceFrom(Head(list), Len(oldFull))),
                   Tail(list), oldFull, newFull)

\* the loop of lines 435-439 over dirsToMove
RECURSIVE DirMoveAll(_, _, _, _)
DirMoveAll(dirs, list, oldFull, newFull) ==
    IF Len(list) = 0 THEN dirs
    ELSE DirMoveAll(
             Without(DirAdd(dirs, newFull \o SliceFrom(Head(list), Len(oldFull))), Head(list)),
             Tail(list), oldFull, newFull)

\* rename's outcome, lines 356-448: both paths are validated, the new path's
\* ancestors are materialized, and only then is the source looked up
WSRenameOutcome(oldPath, newPath) ==
    IF ~Accepts(oldPath) \/ ~Accepts(newPath) THEN "InvalidPath"
    ELSE IF EnsureDiverges(directories, FullPathOf(newPath)) THEN "RangeError"
    ELSE LET dirs == EnsureParentDirectories(directories, FullPathOf(newPath))
         IN  IF Has(files, FullPathOf(oldPath)) \/ FullPathOf(oldPath) \in KeySet(dirs)
             THEN "ok" ELSE "NotFound"

\* rename of a file, lines 369-399
WSRenameFile(oldFull, newFull) ==
    /\ files' = MapMove(files, oldFull, newFull)
    /\ accessTimes' = FnMove(accessTimes, oldFull, newFull)
    /\ modifiedTimes' = FnMove(modifiedTimes, oldFull, newFull)
    /\ tldrs' = FnMove(tldrs, oldFull, newFull)
    /\ pinned' = UpdatePinnedPath(pinned, oldFull, newFull)
    /\ directories' = EnsureParentDirectories(directories, newFull)

\* rename of a directory, lines 401-446
WSRenameDirectory(oldFull, newFull) ==
    LET dirs0 == EnsureParentDirectories(directories, newFull)
        dirs1 == Without(DirAdd(dirs0, newFull), oldFull)
        filesToMove == KeysUnder(files.k, oldFull \o Slash)
        dirsToMove == KeysUnder(dirs1, oldFull \o Slash)
    IN  /\ files' = MapMoveAll(files, filesToMove, oldFull, newFull)
        /\ accessTimes' = FnMoveAll(accessTimes, filesToMove, oldFull, newFull)
        /\ modifiedTimes' = FnMoveAll(modifiedTimes, filesToMove, oldFull, newFull)
        /\ tldrs' = FnMoveAll(tldrs, filesToMove, oldFull, newFull)
        /\ pinned' = UpdatePinnedPaths(pinned, filesToMove, oldFull, newFull)
        /\ directories' = DirMoveAll(dirs1, dirsToMove, oldFull, newFull)

WSRename(oldPath, newPath) ==
    /\ adapter \in MementoBacked
    /\ last' = Call("rename", WSRenameOutcome(oldPath, newPath))
    /\ CASE last'.outcome \in {"InvalidPath", "RangeError"} ->
              UNCHANGED <<files, directories, accessTimes, modifiedTimes, tldrs, pinned>>
         [] last'.outcome = "NotFound" ->
              /\ directories' = EnsureParentDirectories(directories, FullPathOf(newPath))
              /\ UNCHANGED <<files, accessTimes, modifiedTimes, tldrs, pinned>>
         [] OTHER ->
              IF Has(files, FullPathOf(oldPath))
              THEN WSRenameFile(FullPathOf(oldPath), FullPathOf(newPath))
              ELSE WSRenameDirectory(FullPathOf(oldPath), FullPathOf(newPath))

\* setTldr's and deleteTldr's outcome, lines 503-515
WSTldrOutcome(memoryPath) == IF ~Accepts(memoryPath) THEN "InvalidPath" ELSE "ok"

WSSetTldr(memoryPath, tldr) ==
    /\ adapter \in MementoBacked
    /\ last' = Call("setTldr", WSTldrOutcome(memoryPath))
    /\ IF last'.outcome # "ok"
       THEN UNCHANGED tldrs
       ELSE tldrs' = FnSet(tldrs, FullPathOf(memoryPath), tldr)
    /\ UNCHANGED <<files, directories, accessTimes, modifiedTimes, pinned>>

WSDeleteTldr(memoryPath) ==
    /\ adapter \in MementoBacked
    /\ last' = Call("deleteTldr", WSTldrOutcome(memoryPath))
    /\ IF last'.outcome # "ok"
       THEN UNCHANGED tldrs
       ELSE tldrs' = FnDelete(tldrs, FullPathOf(memoryPath))
    /\ UNCHANGED <<files, directories, accessTimes, modifiedTimes, pinned>>

\* listFiles, lines 452-495: an entry for every directory but the root and
\* for every file (as a set: the order sort leaves them in is not modelled)
WSListFiles ==
    {[path |-> d, isDirectory |-> TRUE] : d \in KeySet(directories) \ {MEMORIES_DIR}}
        \cup {[path |-> f, isDirectory |-> FALSE] : f \in DOMAIN files.v}

\* listFiles, lines 452-495, as the array it returns: the directories in
\* the order of their keys without the root, then the files in the order of
\* theirs, sorted by path
WSListFilesSorted ==
    LET dirKeys == SelectSeq(directories, LAMBDA d : d # MEMORIES_DIR)
    IN SortByPath([i \in 1..Len(dirKeys) |-> [path |-> dirKeys[i], isDirectory |-> TRUE]]
                      \o [i \in 1..Len(files.k) |-> [path |-> files.k[i], isDirectory |-> FALSE]])

\* an optional value: the list of it when there is one, the empty list when
\* it is undefined
Optional(f, key) == IF key \in DOMAIN f THEN <<f[key]>> ELSE <<>>

\* what listFiles reports for a file, lines 481-491: the two times (the
\* file entry's own when the records hold none) and the summary
WSFileInfo(filePath) ==
    [lastAccessed |-> IF filePath \in DOMAIN accessTimes THEN accessTimes[filePath]
                      ELSE files.v[filePath].modified,
     lastModified |-> IF filePath \in DOMAIN modifiedTimes THEN modifiedTimes[filePath]
                      ELSE files.v[filePath].modified,
     tldr |-> Optional(tldrs, filePath)]

\* the pinFile command of src/src/extension.ts lines 111-118: the user pins
\* an entry of the tree, which shows what listFiles returned
WSPinListed(path) ==
    /\ adapter \in MementoBacked
    /\ path \in {e.path : e \in WSListFiles}
    /\ pinned' = PinFile(pinned, path)
    /\ last' = Call("pinFile", "ok")
    /\ UNCHANGED <<files, directories, accessTimes, modifiedTimes, tldrs>>

-----------------------------------------------------------------------------
(* SecretMemoryStorage: src/src/storage.ts lines 1123-1590.                 *)
(* The metadata index is a Map from full paths to entries; the contents and *)
(* the summaries are secrets under keys built from the path as given.       *)

\* getSecretKey, lines 1143-1149, without the constant prefix: the path as
\* given, not the normalized one
SecretKey(memoryPath) ==
    IF StartsWith(memoryPath, MEMORIES_DIR) THEN memoryPath ELSE JoinMemoriesDir(memoryPath)

\* getSecretKey of every raw path it accepts, computed once
SecretKeys == [p \in ValidPaths |-> SecretKey(p)]

SecretKeyOf(memoryPath) == SecretKeys[memoryPath]

\* !CONTENT for what secretStorage.get returns: nothing, or the empty string
NoContent(store, key) == key \notin DOMAIN store \/ store[key] = <<>>

DirEntry == [isDirectory |-> TRUE, size |-> 0, modified |-> Now, accessed |-> Now]

FileEntry(size) == [isDirectory |-> FALSE, size |-> size, modified |-> Now, accessed |-> Now]

\* the loop of updateFileMetadata, lines 1214-1225
RECURSIVE AddParentEntries(_, _)
AddParentEntries(meta, parentDir) ==
    IF parentDir = Slash \/ parentDir = MEMORIES_DIR THEN meta
    ELSE AddParentEntries(IF Has(meta, parentDir) THEN meta ELSE MapSet(meta, parentDir, DirEntry),
                          PosixDirname(parentDir))

\* updateFileMetadata, had it built the index anew instead of reading it
UpdateFileMetadataAnew(meta, fullPath, size) ==
    MapSet(MapSet(AddParentEntries(EmptyMap, PosixDirname(fullPath)), MEMORIES_DIR, DirEntry),
           fullPath, FileEntry(size))

\* updateFileMetadata, lines 1209-1245
UpdateFileMetadata(meta, fullPath, size) ==
    LET withParents == AddParentEntries(meta, PosixDirname(fullPath))
        withRoot == IF Has(withParents, MEMORIES_DIR) THEN withParents
                    ELSE MapSet(withParents, MEMORIES_DIR, DirEntry)
    IN  MapSet(withRoot, fullPath, FileEntry(size))

\* ENTRY.accessed = new Date(); saveMetadata(METADATA)
Accessed(meta, fullPath) ==
    MapSet(meta, fullPath, [meta.v[fullPath] EXCEPT !.accessed = Now])

\* whether the index holds a file entry at the path
IsFileEntry(meta, fullPath) == Has(meta, fullPath) /\ ~meta.v[fullPath].isDirectory

\* view's outcome, lines 1247-1337
SecretViewOutcome(memoryPath) ==
    IF ~Accepts(memoryPath) THEN "InvalidPath"
    ELSE LET fullPath == FullPathOf(memoryPath)
         IN  IF ~Has(metadata, fullPath)
             THEN (IF fullPath = MEMORIES_DIR THEN "ok" ELSE "NotFound")
             ELSE IF metadata.v[fullPath].isDirectory THEN "ok"
             ELSE IF NoContent(secrets, SecretKeyOf(memoryPath)) THEN "NotFound"
             ELSE "ok"

\* readRaw's outcome, lines 1339-1360
SecretReadRawOutcome(memoryPath) ==
    IF ~Accepts(memoryPath) THEN "InvalidPath"
    ELSE IF ~IsFileEntry(metadata, FullPathOf(memoryPath)) THEN "NotFound"
    ELSE IF NoContent(secrets, SecretKeyOf(memoryPath)) THEN "NotFound"
    ELSE "ok"

\* the text readRaw returns, line 1359
SecretReadRawText(memoryPath) == secrets[SecretKeyOf(memoryPath)]

\* an item of a directory listing, lines 1301-1313: a directory's name and a
\* slash, a file's name and its summary when it has one
SecretItem(key, fullPath) ==
    IF metadata.v[key].isDirectory THEN ChildName(key, fullPath) \o Slash
    ELSE IF NoContent(secretTldrs, SecretKey(key)) THEN ChildName(key, fullPath)
    ELSE ChildName(key, fullPath) \o <<" ", "-", " ">> \o secretTldrs[SecretKey(key)]

\* the text view returns when it succeeds, lines 1252-1336: only a root
\* without an entry of its own gets the note that nothing has been created
SecretViewText(memoryPath) ==
    LET fullPath == FullPathOf(memoryPath)
        items == {SecretItem(key, fullPath) :
                      key \in {k \in DOMAIN metadata.v : IsChild(k, fullPath)}}
    IN  IF ~Has(metadata, fullPath) THEN Listing(memoryPath, items, items = {})
        ELSE IF metadata.v[fullPath].isDirectory THEN Listing(memoryPath, items, FALSE)
        ELSE Rendering(ViewFile(secrets[SecretKeyOf(memoryPath)], <<>>))

\* view and readRaw save the access time of a file entry before they read
\* the content, lines 1309-1311 and 1348-1350
SecretTouch(memoryPath) ==
    IF Accepts(memoryPath) /\ IsFileEntry(metadata, FullPathOf(memoryPath))
    THEN Accessed(metadata, FullPathOf(memoryPath))
    ELSE metadata

SecretStorageView(memoryPath) ==
    /\ adapter = "secret"
    /\ last' = Call("view", SecretViewOutcome(memoryPath))
    /\ metadata' = SecretTouch(memoryPath)
    /\ UNCHANGED <<secrets, secretTldrs, pinned>>

SecretStorageReadRaw(memoryPath) ==
    /\ adapter = "secret"
    /\ last' = Call("readRaw", SecretReadRawOutcome(memoryPath))
    /\ metadata' = SecretTouch(memoryPath)
    /\ UNCHANGED <<secrets, secretTldrs, pinned>>

\* create, lines 1362-1368
SecretStorageCreate(memoryPath, content) ==
    /\ adapter = "secret"
    /\ last' = Call("create", IF Accepts(memoryPath) THEN "ok" ELSE "InvalidPath")
    /\ IF last'.outcome # "ok"
       THEN UNCHANGED <<secrets, metadata>>
       ELSE /\ secrets' = FnSet(secrets, SecretKeyOf(memoryPath), content)
            /\ metadata' = UpdateFileMetadata(metadata, FullPathOf(memoryPath), Len(content))
    /\ UNCHANGED <<secretTldrs, pinned>>

\* strReplace and insert share everything but the text function, lines
\* 1370-1402: the entry is looked up, readRaw is called, the text is edited
SecretEditOutcome(memoryPath, edited) ==
    IF SecretReadRawOutcome(memoryPath) # "ok" THEN SecretReadRawOutcome(memoryPath)
    ELSE edited.outcome

SecretEdit(op, memoryPath, edited) ==
    /\ adapter = "secret"
    /\ last' = Call(op, SecretEditOutcome(memoryPath, edited))
    /\ IF last'.outcome # "ok"
       THEN /\ metadata' = SecretTouch(memoryPath)
            /\ UNCHANGED secrets
       ELSE /\ secrets' = FnSet(secrets, SecretKeyOf(memoryPath), edited.text)
            /\ metadata' = UpdateFileMetadata(SecretTouch(memoryPath), FullPathOf(memoryPath),
                                              Len(edited.text))
    /\ UNCHANGED <<secretTldrs, pinned>>

\* the text readRaw hands to the edit, the empty text when it throws
SecretTextAt(memoryPath) ==
    IF SecretReadRawOutcome(memoryPath) = "ok" THEN SecretReadRawText(memoryPath) ELSE <<>>

SecretStorageStrReplace(memoryPath, oldStr, newStr) ==
    SecretEdit("str_replace", memoryPath, ReplaceFirst(SecretTextAt(memoryPath), oldStr, newStr))

SecretStorageInsert(memoryPath, insertLine, insertText) ==
    SecretEdit("insert", memoryPath, InsertAtLine(SecretTextAt(memoryPath), insertLine, insertText))

\* what delete and rename work on: the index being edited, the secrets, the
\* summaries and the pins
SecretState == [meta |-> metadata, secrets |-> secrets, tldrs |-> secretTldrs, pins |-> pinned]

\* delete's outcome, lines 1405-1411
SecretDeleteOutcome(memoryPath) ==
    IF ~Accepts(memoryPath) THEN "InvalidPath"
    ELSE IF ~Has(metadata, FullPathOf(memoryPath)) THEN "NotFound"
    ELSE "ok"

\* one turn of the loop of lines 1422-1435
SecretDeleteItem(st, path) ==
    IF ~st.meta.v[path].isDirectory
    THEN [meta |-> MapDelete(st.meta, path),
          secrets |-> FnDelete(st.secrets, SecretKey(path)),
          tldrs |-> FnDelete(st.tldrs, SecretKey(path)),
          pins |-> UnpinFile(st.pins, path)]
    ELSE [st EXCEPT !.meta = MapDelete(st.meta, path)]

RECURSIVE SecretDeleteItems(_, _)
SecretDeleteItems(st, list) ==
    IF Len(list) = 0 THEN st
    ELSE SecretDeleteItems(SecretDeleteItem(st, Head(list)), Tail(list))

\* delete of a directory, lines 1413-1443
SecretDeleteDirectory(st, fullPath) ==
    LET emptied == SecretDeleteItems(st, KeysUnder(st.meta.k, fullPath \o Slash))
    IN  IF fullPath # MEMORIES_DIR
        THEN [emptied EXCEPT !.meta = MapDelete(emptied.meta, fullPath)]
        ELSE emptied

\* delete of a file, lines 1444-1458
SecretDeleteFile(st, memoryPath) ==
    [meta |-> MapDelete(st.meta, FullPathOf(memoryPath)),
     secrets |-> FnDelete(st.secrets, SecretKeyOf(memoryPath)),
     tldrs |-> FnDelete(st.tldrs, SecretKeyOf(memoryPath)),
     pins |-> UnpinFile(st.pins, FullPathOf(memoryPath))]

\* the four variables take the values of a SecretState
SecretStateBecomes(st) ==
    /\ metadata' = st.meta
    /\ secrets' = st.secrets
    /\ secretTldrs' = st.tldrs
    /\ pinned' = st.pins

SecretStorageDelete(memoryPath) ==
    /\ adapter = "secret"
    /\ last' = Call("delete", SecretDeleteOutcome(memoryPath))
    /\ IF last'.outcome # "ok"
       THEN UNCHANGED <<secrets, secretTldrs, metadata, pinned>>
       ELSE IF metadata.v[FullPathOf(memoryPath)].isDirectory
            THEN SecretStateBecomes(SecretDeleteDirectory(SecretState, FullPathOf(memoryPath)))
            ELSE SecretStateBecomes(SecretDeleteFile(SecretState, memoryPath))

\* store(newKey, value); delete(oldKey), when get(oldKey) is not empty:
\* lines 1490-1502 and 1518-1532
SecretMove(store, oldKey, newKey) ==
    IF NoContent(store, oldKey) THEN store
    ELSE FnDelete(FnSet(store, newKey, store[oldKey]), oldKey)

\* METADATA.set(new, entry); METADATA.delete(old)
EntryMove(meta, oldKey, newKey, entry) == MapDelete(MapSet(meta, newKey, entry), oldKey)

\* PATHSTORENAME, lines 1473-1479: the keys at or under the old path, in the
\* order the Map holds them
RECURSIVE KeysAtOrUnder(_, _)
KeysAtOrUnder(keys, oldFull) ==
    IF Len(keys) = 0 THEN <<>>
    ELSE IF Head(keys) = oldFull \/ StartsWith(Head(keys), oldFull \o Slash)
         THEN <<Head(keys)>> \o KeysAtOrUnder(Tail(keys), oldFull)
         ELSE KeysAtOrUnder(Tail(keys), oldFull)

\* one turn of the loop of lines 1481-1511
SecretRenameItem(st, oldItem, newItem) ==
    LET entry == st.meta.v[oldItem]
    IN  IF ~entry.isDirectory
        THEN [meta |-> EntryMove(st.meta, oldItem, newItem, entry),
              secrets |-> SecretMove(st.secrets, SecretKey(oldItem), SecretKey(newItem)),
              tldrs |-> SecretMove(st.tldrs, SecretKey(oldItem), SecretKey(newItem)),
              pins |-> UpdatePinnedPath(st.pins, oldItem, newItem)]
        ELSE [st EXCEPT !.meta = EntryMove(st.meta, oldItem, newItem, entry)]

RECURSIVE SecretRenameItems(_, _, _, _)
SecretRenameItems(st, list, oldFull, newFull) ==
    IF Len(list) = 0 THEN st
    ELSE SecretRenameItems(
             SecretRenameItem(st, Head(list), newFull \o SliceFrom(Head(list), Len(oldFull))),
             Tail(list), oldFull, newFull)

\* rename of a directory, lines 1471-1511
SecretRenameDirectory(st, oldFull, newFull) ==
    SecretRenameItems(st, KeysAtOrUnder(st.meta.k, oldFull), oldFull, newFull)

\* rename of a file, lines 1512-1540
SecretRenameFile(st, oldPath, newPath) ==
    [meta |-> EntryMove(st.meta, FullPathOf(oldPath), FullPathOf(newPath),
                        st.meta.v[FullPathOf(oldPath)]),
     secrets |-> SecretMove(st.secrets, SecretKeyOf(oldPath), SecretKeyOf(newPath)),
     tldrs |-> SecretMove(st.tldrs, SecretKeyOf(oldPath), SecretKeyOf(newPath)),
     pins |-> UpdatePinnedPath(st.pins, FullPathOf(oldPath), FullPathOf(newPath))]

\* rename's outcome, lines 1462-1469 and 1518-1522
SecretRenameOutcome(oldPath, newPath) ==
    IF ~Accepts(oldPath) \/ ~Accepts(newPath) THEN "InvalidPath"
    ELSE IF ~Has(metadata, FullPathOf(oldPath)) THEN "NotFound"
    ELSE IF metadata.v[FullPathOf(oldPath)].isDirectory THEN "ok"
    ELSE IF NoContent(secrets, SecretKeyOf(oldPath)) THEN "NotFound"
    ELSE "ok"

SecretStorageRename(oldPath, newPath) ==
    /\ adapter = "secret"
    /\ last' = Call("rename", SecretRenameOutcome(oldPath, newPath))
    /\ IF last'.outcome # "ok"
       THEN UNCHANGED <<secrets, secretTldrs, metadata, pinned>>
       ELSE IF metadata.v[FullPathOf(oldPath)].isDirectory
            THEN SecretStateBecomes(SecretRenameDirectory(SecretState, FullPathOf(oldPath),
                                                          FullPathOf(newPath)))
            ELSE SecretStateBecomes(SecretRenameFile(SecretState, oldPath, newPath))

\* setTldr, lines 1581-1584
SecretStorageSetTldr(memoryPath, tldr) ==
    /\ adapter = "secret"
    /\ last' = Call("setTldr", IF Accepts(memoryPath) THEN "ok" ELSE "InvalidPath")
    /\ IF last'.outcome # "ok"
       THEN UNCHANGED secretTldrs
       ELSE secretTldrs' = FnSet(secretTldrs, SecretKeyOf(memoryPath), tldr)
    /\ UNCHANGED <<secrets, metadata, pinned>>

\* deleteTldr, lines 1586-1589
SecretStorageDeleteTldr(memoryPath) ==
    /\ adapter = "secret"
    /\ last' = Call("deleteTldr", IF Accepts(memoryPath) THEN "ok" ELSE "InvalidPath")
    /\ IF last'.outcome # "ok"
       THEN UNCHANGED secretTldrs
       ELSE secretTldrs' = FnDelete(secretTldrs, SecretKeyOf(memoryPath))
    /\ UNCHANGED <<secrets, metadata, pinned>>

\* listFiles, lines 1545-1574: an entry for every key of the index but the
\* root (as a set: the order sort leaves them in is not modelled)
SecretListFiles ==
    {[path |-> key, isDirectory |-> metadata.v[key].isDirectory] :
         key \in (DOMAIN metadata.v) \ {MEMORIES_DIR}}

\* listFiles, lines 1545-1574, as the array it returns: the entries of the
\* index in its order without the root, sorted by path
SecretListFilesSorted ==
    LET keys == SelectSeq(metadata.k, LAMBDA key : key # MEMORIES_DIR)
    IN SortByPath([i \in 1..Len(keys) |->
                       [path |-> keys[i], isDirectory |-> metadata.v[keys[i]].isDirectory]])

\* what listFiles reports for a file, lines 1554-1569
SecretFileInfo(filePath) ==
    [lastAccessed |-> metadata.v[filePath].accessed,
     lastModified |-> metadata.v[filePath].modified,
     tldr |-> Optional(secretTldrs, SecretKey(filePath))]

\* the pinFile command of src/src/extension.ts lines 111-118 on an entry of
\* the encrypted store's tree
SecretStoragePinListed(path) ==
    /\ adapter = "secret"
    /\ path \in {e.path : e \in SecretListFiles}
    /\ pinned' = PinFile(pinned, path)
    /\ last' = Call("pinFile", "ok")
    /\ UNCHANGED <<secrets, secretTldrs, metadata>>

-----------------------------------------------------------------------------
(* The store specification *)

\* every path the adapter holds anything under
StoredPaths ==
    KeySet(files.k) \cup KeySet(directories) \cup DOMAIN accessTimes
        \cup DOMAIN modifiedTimes \cup DOMAIN tldrs \cup pinned
        \cup KeySet(metadata.k) \cup DOMAIN secrets \cup DOMAIN secretTldrs

\* every text the adapter holds
StoredTexts ==
    {files.v[key].content : key \in DOMAIN files.v} \cup {secrets[key] : key \in DOMAIN secrets}

WithinBounds ==
    /\ Cardinality(StoredPaths) <= MaxStored
    /\ \A key \in StoredPaths : Len(key) <= MaxPathLen
    /\ \A text \in StoredTexts : Len(text) <= MaxTextLen

Frame == UNCHANGED <<adapter, clock, pathIn, pathOut, textVars, sideVars, hostVars>>

View(p) == WSView(p) /\ UNCHANGED secVars /\ Frame /\ WithinBounds'

ReadRaw(p) == WSReadRaw(p) /\ UNCHANGED secVars /\ Frame /\ WithinBounds'

Create(p, c) == WSCreate(p, c) /\ UNCHANGED secVars /\ Frame /\ WithinBounds'

StrReplace(p, o, n) == WSStrReplace(p, o, n) /\ UNCHANGED secVars /\ Frame /\ WithinBounds'

Insert(p, l, t) == WSInsert(p, l, t) /\ UNCHANGED secVars /\ Frame /\ WithinBounds'

Delete(p) == WSDelete(p) /\ UNCHANGED secVars /\ Frame /\ WithinBounds'

Rename(p, q) == WSRename(p, q) /\ UNCHANGED secVars /\ Frame /\ WithinBounds'

SetTldr(p, t) == WSSetTldr(p, t) /\ UNCHANGED secVars /\ Frame /\ WithinBounds'

DeleteTldr(p) == WSDeleteTldr(p) /\ UNCHANGED secVars /\ Frame /\ WithinBounds'

PinListed(k) == WSPinListed(k) /\ UNCHANGED secVars /\ Frame /\ WithinBounds'

Init ==
    /\ adapter = "ws"
    /\ files = EmptyMap
    /\ directories = <<MEMORIES_DIR>>
    /\ accessTimes = <<>>
    /\ modifiedTimes = <<>>
    /\ tldrs = <<>>
    /\ secrets = <<>>
    /\ secretTldrs = <<>>
    /\ metadata = EmptyMap
    /\ pinned = {}
    /\ clock = 1
    /\ last = NoCall
    /\ pathIn = <<>>
    /\ pathOut = NoKey
    /\ textIn = NoText
    /\ textOut = NoText
    /\ Aside

Next ==
    \/ \E p \in Paths : View(p)
    \/ \E p \in Paths : ReadRaw(p)
    \/ \E p \in Paths, c \in Contents : Create(p, c)
    \/ \E p \in Paths, o \in OldStrs, n \in NewStrs : StrReplace(p, o, n)
    \/ \E p \in Paths, l \in InsertLines, t \in InsertTexts : Insert(p, l, t)
    \/ \E p \in Paths : Delete(p)
    \/ \E p, q \in Paths : Rename(p, q)

Spec == Init /\ [][Next]_vars

\* The encrypted store: the calls of Next on SecretMemoryStorage
SecretView(p) == SecretStorageView(p) /\ UNCHANGED wsVars /\ Frame /\ WithinBounds'

SecretReadRaw(p) == SecretStorageReadRaw(p) /\ UNCHANGED wsVars /\ Frame /\ WithinBounds'

SecretCreate(p, c) == SecretStorageCreate(p, c) /\ UNCHANGED wsVars /\ Frame /\ WithinBounds'

SecretStrReplace(p, o, n) ==
    SecretStorageStrReplace(p, o, n) /\ UNCHANGED wsVars /\ Frame /\ WithinBounds'

SecretInsert(p, l, t) ==
    SecretStorageInsert(p, l, t) /\ UNCHANGED wsVars /\ Frame /\ WithinBounds'

SecretDelete(p) == SecretStorageDelete(p) /\ UNCHANGED wsVars /\ Frame /\ WithinBounds'

SecretRename(p, q) == SecretStorageRename(p, q) /\ UNCHANGED wsVars /\ Frame /\ WithinBounds'

SecretSetTldr(p, t) ==
    SecretStorageSetTldr(p, t) /\ UNCHANGED wsVars /\ Frame /\ WithinBounds'

SecretDeleteTldr(p) ==
    SecretStorageDeleteTldr(p) /\ UNCHANGED wsVars /\ Frame /\ WithinBounds'

SecretPinListed(k) ==
    SecretStoragePinListed(k) /\ UNCHANGED wsVars /\ Frame /\ WithinBounds'

\* SecretMemoryStorage's constructor stores nothing: the index is empty
InitSecret ==
    /\ adapter = "secret"
    /\ files = EmptyMap
    /\ directories = <<>>
    /\ accessTimes = <<>>
    /\ modifiedTimes = <<>>
    /\ tldrs = <<>>
    /\ secrets = <<>>
    /\ secretTldrs = <<>>
    /\ metadata = EmptyMap
    /\ pinned = {}
    /\ clock = 1
    /\ last = NoCall
    /\ pathIn = <<>>
    /\ pathOut = NoKey
    /\ textIn = NoText
    /\ textOut = NoText
    /\ Aside

NextSecret ==
    \/ \E p \in SecretPaths : SecretView(p)
    \/ \E p \in SecretPaths : SecretReadRaw(p)
    \/ \E p \in SecretPaths, c \in Contents : SecretCreate(p, c)
    \/ \E p \in SecretPaths, o \in OldStrs, n \in NewStrs : SecretStrReplace(p, o, n)
    \/ \E p \in SecretPaths, l \in InsertLines, t \in InsertTexts : SecretInsert(p, l, t)
    \/ \E p \in SecretPaths : SecretDelete(p)
    \/ \E p, q \in SecretPaths : SecretRename(p, q)

SpecSecret == InitSecret /\ [][NextSecret]_vars

\* The path functions on their own: a raw path is drawn, and getFullPath or
\* getSecretKey is applied to it.
PathTokens == {MEMORIES_DIR, Slash, <<"a">>, DotDot, <<"X">>, <<"%", "2", "e">>, <<"\n">>}

RECURSIVE Flatten(_)
Flatten(tokens) == IF Len(tokens) = 0 THEN <<>> ELSE Head(tokens) \o Flatten(Tail(tokens))

RawPaths == {Flatten(tokens) : tokens \in UNION {[1..n -> PathTokens] : n \in 1..MaxTokens}}

KeyFrom(fn, memoryPath, key) ==
    IF IsValidPath(memoryPath)
    THEN [fn |-> fn, outcome |-> "ok", key |-> key]
    ELSE [fn |-> fn, outcome |-> "InvalidPath", key |-> <<>>]

RunGetFullPath ==
    /\ pathOut = NoKey
    /\ pathOut' = KeyFrom("getFullPath", pathIn, GetFullPath(pathIn))
    /\ UNCHANGED <<adapter, wsVars, secVars, pinned, clock, last, pathIn, textVars, sideVars, hostVars>>

RunGetSecretKey ==
    /\ pathOut = NoKey
    /\ pathOut' = KeyFrom("getSecretKey", pathIn, SecretKey(pathIn))
    /\ UNCHANGED <<adapter, wsVars, secVars, pinned, clock, last, pathIn, textVars, sideVars, hostVars>>

\* normalizeMemoryPath applied to the raw path: it validates nothing and
\* returns for every string
RunNormalizeMemoryPath ==
    /\ pathOut = NoKey
    /\ pathOut' = [fn |-> "normalizeMemoryPath", outcome |-> "ok",
                   key |-> NormalizeMemoryPath(pathIn)]
    /\ UNCHANGED <<adapter, wsVars, secVars, pinned, clock, last, pathIn, textVars, sideVars, hostVars>>

InitPath ==
    /\ adapter = "none"
    /\ files = EmptyMap
    /\ directories = <<>>
    /\ accessTimes = <<>>
    /\ modifiedTimes = <<>>
    /\ tldrs = <<>>
    /\ secrets = <<>>
    /\ secretTldrs = <<>>
    /\ metadata = EmptyMap
    /\ pinned = {}
    /\ clock = 1
    /\ last = NoCall
    /\ pathIn \in RawPaths
    /\ pathOut = NoKey
    /\ textIn = NoText
    /\ textOut = NoText
    /\ Aside

NextPath == RunGetFullPath \/ RunGetSecretKey \/ RunNormalizeMemoryPath

SpecPath == InitPath /\ [][NextPath]_vars

\* The text functions on their own: a function and its arguments are drawn,
\* and the function is applied to them.
MaxRunTextLen == 3

MaxLineNumber == 5

RunChars == {"a", "\n"}

RunTexts == UNION {[1..n -> RunChars] : n \in 0..MaxRunTextLen}

RunOldStrs == {<<>>, <<"a">>, <<"a", "a">>, <<"\n">>}

RunNewStrs == {<<>>, <<"y">>, <<"$", "&">>, <<"$", "$">>}

RunLineNumbers == (-1)..MaxLineNumber

RunInsertTexts == {<<>>, <<"y">>, <<"y", "\n", "y">>}

RunRanges == {<<>>} \cup {<<s, e>> : s \in 0..(MaxRunTextLen + 1), e \in (-2)..MaxLineNumber}

TextInputs ==
    [fn : {"replaceFirst"}, text : RunTexts, oldStr : RunOldStrs, newStr : RunNewStrs]
        \cup [fn : {"insertAtLine"}, text : RunTexts, lineNumber : RunLineNumbers,
              insertText : RunInsertTexts]
        \cup [fn : {"view"}, text : RunTexts, viewRange : RunRanges]

RunReplaceFirst ==
    /\ textIn.fn = "replaceFirst"
    /\ textOut.fn = "none"
    /\ textOut' = [fn |-> "replaceFirst",
                   result |-> ReplaceFirst(textIn.text, textIn.oldStr, textIn.newStr)]
    /\ UNCHANGED <<adapter, wsVars, secVars, pinned, clock, last, pathIn, pathOut, textIn,
                   sideVars, hostVars>>

RunInsertAtLine ==
    /\ textIn.fn = "insertAtLine"
    /\ textOut.fn = "none"
    /\ textOut' = [fn |-> "insertAtLine",
                   result |-> InsertAtLine(textIn.text, textIn.lineNumber, textIn.insertText)]
    /\ UNCHANGED <<adapter, wsVars, secVars, pinned, clock, last, pathIn, pathOut, textIn,
                   sideVars, hostVars>>

RunViewFile ==
    /\ textIn.fn = "view"
    /\ textOut.fn = "none"
    /\ textOut' = [fn |-> "view",
                   result |-> [outcome |-> "ok", text |-> ViewFile(textIn.text, textIn.viewRange)]]
    /\ UNCHANGED <<adapter, wsVars, secVars, pinned, clock, last, pathIn, pathOut, textIn,
                   sideVars, hostVars>>

InitText ==
    /\ adapter = "none"
    /\ files = EmptyMap
    /\ directories = <<>>
    /\ accessTimes = <<>>
    /\ modifiedTimes = <<>>
    /\ tldrs = <<>>
    /\ secrets = <<>>
    /\ secretTldrs = <<>>
    /\ metadata = EmptyMap
    /\ pinned = {}
    /\ clock = 1
    /\ last = NoCall
    /\ pathIn = <<>>
    /\ pathOut = NoKey
    /\ textIn \in TextInputs
    /\ textOut = NoText
    /\ Aside

NextText == RunReplaceFirst \/ RunInsertAtLine \/ RunViewFile

SpecText == InitText /\ [][NextText]_vars

\* The encrypted store with calls that overlap: every await of create is a
\* point where another call of the same instance may run. create (lines
\* 1362-1368) stores the content, then updateFileMetadata reads the index
\* (line 1210), and after that await edits its copy and saves it (lines
\* 1214-1244).
MaxCalls == 2

CallIds == 1..MaxCalls

ConcurrentPaths == {PathA, PathB, PathOutside}

\* create up to its first await: the path is validated and the content stored
BeginCreate(id, memoryPath, content) ==
    /\ adapter = "secret"
    /\ id \notin DOMAIN calls.active
    /\ IF ~Accepts(memoryPath)
       THEN /\ last' = Call("create", "InvalidPath")
            /\ UNCHANGED <<secrets, calls>>
       ELSE /\ secrets' = FnSet(secrets, SecretKeyOf(memoryPath), content)
            /\ calls' = [active |-> FnSet(calls.active, id,
                                          [path |-> memoryPath, size |-> Len(content),
                                           pc |-> "stored", index |-> EmptyMap]),
                         overlapped |-> calls.overlapped \/ DOMAIN calls.active # {}]
            /\ UNCHANGED last
    /\ UNCHANGED <<wsVars, secretTldrs, metadata, pinned, adapter, clock, pathIn, pathOut,
                   textVars, pending, head, currentBranch, namespaces, hostVars>>

\* updateFileMetadata up to its first await: getMetadata reads the index
ReadIndex(id) ==
    /\ id \in DOMAIN calls.active
    /\ calls.active[id].pc = "stored"
    /\ calls' = [calls EXCEPT !.active[id].pc = "read", !.active[id].index = metadata]
    /\ UNCHANGED <<wsVars, secVars, pinned, adapter, clock, last, pathIn, pathOut,
                   textVars, pending, head, currentBranch, namespaces, hostVars>>

\* the rest of updateFileMetadata: the copy read is edited and saved, and
\* create returns
SaveIndex(id) ==
    /\ id \in DOMAIN calls.active
    /\ calls.active[id].pc = "read"
    /\ metadata' = UpdateFileMetadata(calls.active[id].index,
                                      FullPathOf(calls.active[id].path), calls.active[id].size)
    /\ calls' = [calls EXCEPT !.active = FnDelete(calls.active, id)]
    /\ last' = Call("create", "ok")
    /\ UNCHANGED <<wsVars, secrets, secretTldrs, pinned, adapter, clock, pathIn, pathOut,
                   textVars, pending, head, currentBranch, namespaces, hostVars>>

NextConcurrent ==
    \/ \E id \in CallIds, p \in ConcurrentPaths, c \in Contents : BeginCreate(id, p, c)
    \/ \E id \in CallIds : ReadIndex(id)
    \/ \E id \in CallIds : SaveIndex(id)

SpecConcurrent == InitSecret /\ [][NextConcurrent]_vars

\* The two adapters side by side: every call is made on a
\* WorkspaceStateStorage and then, with the same arguments, on a
\* SecretMemoryStorage, both fresh at the start. pending holds the call the
\* second adapter has yet to make.
PairPaths == {PathA, PathAF, PathOutside}

Asked(op, args) == [op |-> op, outcome |-> "ok", args |-> args]

\* the first adapter has made a call: the second is to make it next
FirstOfPair(op, args) ==
    /\ adapter' = "secret"
    /\ pending' = Asked(op, args)
    /\ UNCHANGED <<secVars, clock, pathIn, pathOut, textVars, calls, head, currentBranch, namespaces, hostVars>>
    /\ WithinBounds'

\* the second adapter makes the pending call
SecondOfPair(op, args) ==
    /\ pending = Asked(op, args)
    /\ adapter' = "ws"
    /\ pending' = NoCall
    /\ UNCHANGED <<wsVars, clock, pathIn, pathOut, textVars, calls, head, currentBranch, namespaces, hostVars>>
    /\ WithinBounds'

PairCreate(p, c) ==
    \/ WSCreate(p, c) /\ FirstOfPair("create", <<p, c>>)
    \/ SecretStorageCreate(p, c) /\ SecondOfPair("create", <<p, c>>)

PairStrReplace(p, o, n) ==
    \/ WSStrReplace(p, o, n) /\ FirstOfPair("str_replace", <<p, o, n>>)
    \/ SecretStorageStrReplace(p, o, n) /\ SecondOfPair("str_replace", <<p, o, n>>)

PairInsert(p, l, t) ==
    \/ WSInsert(p, l, t) /\ FirstOfPair("insert", <<p, l, t>>)
    \/ SecretStorageInsert(p, l, t) /\ SecondOfPair("insert", <<p, l, t>>)

PairDelete(p) ==
    \/ WSDelete(p) /\ FirstOfPair("delete", <<p>>)
    \/ SecretStorageDelete(p) /\ SecondOfPair("delete", <<p>>)

PairRename(p, q) ==
    \/ WSRename(p, q) /\ FirstOfPair("rename", <<p, q>>)
    \/ SecretStorageRename(p, q) /\ SecondOfPair("rename", <<p, q>>)

NextPair ==
    \/ \E p \in PairPaths, c \in Contents : PairCreate(p, c)
    \/ \E p \in PairPaths, o \in OldStrs, n \in NewStrs : PairStrReplace(p, o, n)
    \/ \E p \in PairPaths, l \in InsertLines, t \in InsertTexts : PairInsert(p, l, t)
    \/ \E p \in PairPaths : PairDelete(p)
    \/ \E p, q \in PairPaths : PairRename(p, q)

SpecPair == Init /\ [][NextPair]_vars

-----------------------------------------------------------------------------
(* BranchStateStorage: src/src/storage.ts lines 522-1115.  Its operations   *)
(* are those of WorkspaceStateStorage on the memento values whose keys name *)
(* the current branch; the variables files, directories, accessTimes,       *)
(* modifiedTimes and tldrs hold those values, and namespaces the values     *)
(* under the keys of every other branch.                                    *)

\* The loop body of sanitizeBranchName, lines 579-580: the 32-bit hash, kept
\* as its two 16-bit halves, becomes hash * 31 + char modulo 2^32.
HashStep(hash, char) ==
    LET low == 31 * hash.lo + char
    IN [hi |-> (31 * hash.hi + low \div 65536) % 65536, lo |-> low % 65536]

\* sanitizeBranchName, lines 577-581: the hash of the first i characters
RECURSIVE HashOf(_, _)
HashOf(branchName, i) ==
    IF i = 0 THEN [hi |-> 0, lo |-> 0]
    ELSE HashStep(HashOf(branchName, i - 1), CharCodeAt(branchName[i]))

\* Math.abs of the signed 32-bit value, line 585, in halves
AbsHash(hash) ==
    IF hash.hi < 32768 THEN hash
    ELSE [hi |-> 65535 - hash.hi + (IF hash.lo = 0 THEN 1 ELSE 0),
          lo |-> (65536 - hash.lo) % 65536]

HexDigit(n) ==
    CASE n = 0 -> "0" [] n = 1 -> "1" [] n = 2 -> "2" [] n = 3 -> "3"
      [] n = 4 -> "4" [] n = 5 -> "5" [] n = 6 -> "6" [] n = 7 -> "7"
      [] n = 8 -> "8" [] n = 9 -> "9" [] n = 10 -> "a" [] n = 11 -> "b"
      [] n = 12 -> "c" [] n = 13 -> "d" [] n = 14 -> "e" [] n = 15 -> "f"

\* Number.prototype.toString(16) of a number below 2^16
RECURSIVE HexOf(_)
HexOf(n) == IF n < 16 THEN <<HexDigit(n)>> ELSE HexOf(n \div 16) \o <<HexDigit(n % 16)>>

\* toString(16) of the number a pair of halves stands for, line 585
HexString(hash) ==
    IF hash.hi = 0 THEN HexOf(hash.lo)
    ELSE HexOf(hash.hi) \o <<HexDigit(hash.lo \div 4096), HexDigit((hash.lo \div 256) % 16),
                             HexDigit((hash.lo \div 16) % 16), HexDigit(hash.lo % 16)>>

\* The characters /[^a-zA-Z0-9-]/ does not match, line 584
KeptInKey(c) ==
    LET code == CharCodeAt(c)
    IN code = 45 \/ code \in 48..57 \/ code \in 65..90 \/ code \in 97..122

\* sanitizeBranchName, lines 574-586
SanitizeBranchName(branchName) ==
    LET sanitized == [i \in 1..Len(branchName) |->
                          IF KeptInKey(branchName[i]) THEN branchName[i] ELSE "-"]
        shown == SubSeq(sanitized, 1, IF Len(sanitized) < 20 THEN Len(sanitized) ELSE 20)
    IN shown \o <<"-">> \o HexString(AbsHash(HashOf(branchName, Len(branchName))))

\* 'unknown', lines 527 and 604: the branch of a HEAD without a name
UnknownBranch == <<"u", "n", "k", "n", "o", "w", "n">>

\* The memento values under the five keys getStorageKey (lines 648-650)
\* builds for the current branch
CurrentNamespace ==
    [files |-> files, directories |-> directories, access |-> accessTimes,
     modified |-> modifiedTimes, tldr |-> tldrs]

\* ensureInitialized, lines 624-646: what a branch never seen before gets
FreshNamespace ==
    [files |-> EmptyMap, directories |-> <<MEMORIES_DIR>>, access |-> <<>>,
     modified |-> <<>>, tldr |-> <<>>]

\* The memento values under the keys getStorageKey builds for a branch key
StoredUnder(key) ==
    IF key = currentBranch THEN CurrentNamespace
    ELSE IF key \in DOMAIN namespaces THEN namespaces[key]
    ELSE FreshNamespace

\* The listener of setupBranchChangeListener, lines 602-611, run when the
\* repository's HEAD has become the branch of this name: the adapter turns
\* to the keys of that branch and ensureInitialized fills the missing ones.
OnDidChange(name) ==
    /\ adapter = "branch"
    /\ head' = name
    /\ LET newBranch == IF name = <<>> THEN UnknownBranch ELSE SanitizeBranchName(name)
           loaded == StoredUnder(newBranch)
       IN IF newBranch # currentBranch
          THEN /\ currentBranch' = newBranch
               /\ namespaces' = [key \in (DOMAIN namespaces \cup {currentBranch}) \ {newBranch} |->
                                     StoredUnder(key)]
               /\ files' = loaded.files
               /\ directories' = loaded.directories
               /\ accessTimes' = loaded.access
               /\ modifiedTimes' = loaded.modified
               /\ tldrs' = loaded.tldr
          ELSE UNCHANGED <<currentBranch, namespaces, wsVars>>
    /\ UNCHANGED <<adapter, secVars, pinned, clock, last, pathIn, pathOut, textVars,
                   calls, pending, hostVars>>

\* listFiles, lines 1052-1095, on the values of a branch: the entries with
\* their pin state, and for a file its times and its summary
BranchListFiles(ns) ==
    {[path |-> d, isDirectory |-> TRUE, isPinned |-> d \in pinned] :
         d \in KeySet(ns.directories) \ {MEMORIES_DIR}}
        \cup {[path |-> f, isDirectory |-> FALSE, isPinned |-> f \in pinned,
               lastAccessed |-> IF f \in DOMAIN ns.access THEN ns.access[f]
                                ELSE ns.files.v[f].modified,
               lastModified |-> IF f \in DOMAIN ns.modified THEN ns.modified[f]
                                ELSE ns.files.v[f].modified,
               tldr |-> Optional(ns.tldr, f)] : f \in DOMAIN ns.files.v}

\* The branch-aware store while branches are checked out: the calls of Next
\* on one path, the pin command, and the branch-change event.  Two of the
\* branch names are valid git names with the same storage key.
MainBranch == <<"m">>
BranchNames == {MainBranch, <<"a", ".", "@">>, <<"a", "/", "!">>}
BranchPaths == {PathA}
BranchContents == {<<"x">>}

InitBranch ==
    /\ adapter = "branch"
    /\ files = EmptyMap
    /\ directories = <<MEMORIES_DIR>>
    /\ accessTimes = <<>>
    /\ modifiedTimes = <<>>
    /\ tldrs = <<>>
    /\ secrets = <<>>
    /\ secretTldrs = <<>>
    /\ metadata = EmptyMap
    /\ pinned = {}
    /\ clock = 1
    /\ last = NoCall
    /\ pathIn = <<>>
    /\ pathOut = NoKey
    /\ textIn = NoText
    /\ textOut = NoText
    /\ calls = NoCalls
    /\ pending = NoCall
    /\ head = MainBranch
    /\ currentBranch = SanitizeBranchName(MainBranch)
    /\ namespaces = <<>>
    /\ logs = <<>>
    /\ hostOut = NoReturn
    /\ agentsMd = NoAgentsMd
    /\ logged = <<>>

NextBranch ==
    \/ \E name \in BranchNames : OnDidChange(name)
    \/ \E p \in BranchPaths : ReadRaw(p)
    \/ \E p \in BranchPaths, c \in BranchContents : Create(p, c)
    \/ \E p \in BranchPaths, o \in OldStrs, n \in NewStrs : StrReplace(p, o, n)
    \/ \E p \in BranchPaths : Delete(p)
    \/ \E p \in BranchPaths, t \in Tldrs : SetTldr(p, t)
    \/ \E k \in BranchPaths : PinListed(k)

SpecBranch == InitBranch /\ [][NextBranch]_vars

\* initializeBranch, lines 536-540, from the moment getCurrentGitBranch has
\* resolved: the constructor started it without waiting (line 533), and
\* until now currentBranch has been the placeholder 'unknown' (line 527).
\* The adapter turns to the keys of the branch detected and
\* ensureInitialized fills the missing ones.
InitializeBranch ==
    /\ adapter = "branch"
    /\ currentBranch = UnknownBranch
    /\ LET detected == SanitizeBranchName(head)
           loaded == StoredUnder(detected)
       IN /\ currentBranch' = detected
          /\ namespaces' = [key \in (DOMAIN namespaces \cup {currentBranch}) \ {detected} |->
                                StoredUnder(key)]
          /\ files' = loaded.files
          /\ directories' = loaded.directories
          /\ accessTimes' = loaded.access
          /\ modifiedTimes' = loaded.modified
          /\ tldrs' = loaded.tldr
    /\ UNCHANGED <<adapter, head, secVars, pinned, clock, last, pathIn, pathOut, textVars,
                   calls, pending, hostVars>>

\* The branch-aware store from its construction on: HEAD has a name, the
\* detection of it is under way, and calls are made before it completes and
\* after; the listener for branch changes is set up once it has completed
\* (line 539).
InitDetect ==
    /\ adapter = "branch"
    /\ files = EmptyMap
    /\ directories = <<MEMORIES_DIR>>
    /\ accessTimes = <<>>
    /\ modifiedTimes = <<>>
    /\ tldrs = <<>>
    /\ secrets = <<>>
    /\ secretTldrs = <<>>
    /\ metadata = EmptyMap
    /\ pinned = {}
    /\ clock = 1
    /\ last = NoCall
    /\ pathIn = <<>>
    /\ pathOut = NoKey
    /\ textIn = NoText
    /\ textOut = NoText
    /\ calls = NoCalls
    /\ pending = NoCall
    /\ head = MainBranch
    /\ currentBranch = UnknownBranch
    /\ namespaces = <<>>
    /\ logs = <<>>
    /\ hostOut = NoReturn
    /\ agentsMd = NoAgentsMd
    /\ logged = <<>>

DetectPaths == {PathA}

NextDetect ==
    \/ InitializeBranch
    \/ currentBranch # UnknownBranch /\ \E name \in BranchNames : OnDidChange(name)
    \/ \E p \in DetectPaths : ReadRaw(p)
    \/ \E p \in DetectPaths, c \in BranchContents : Create(p, c)
    \/ \E p \in DetectPaths : Delete(p)

SpecDetect == InitDetect /\ [][NextDetect]_vars

\* BranchStateStorage.create taken apart at its awaits, lines 811-830, so
\* that the branch-change listener can run between two of its writes.  Each
\* read and each write uses the keys of the branch that is current when it
\* is made (getStorageKey, lines 648-650).  A call in flight records the
\* branch keys it has written to so far (wrote, kept for the properties).
SwitchFrame == UNCHANGED <<adapter, secVars, pinned, clock, pathIn, pathOut, textVars,
                           pending, head, currentBranch, namespaces, hostVars>>

\* create up to the await of line 815: the path is validated and the
\* missing ancestors are stored as directories
BranchBeginCreate(id, memoryPath, content) ==
    /\ adapter = "branch"
    /\ id \notin DOMAIN calls.active
    /\ IF WSCreateOutcome(memoryPath) # "ok"
       THEN /\ last' = Call("create", WSCreateOutcome(memoryPath))
            /\ UNCHANGED <<directories, calls>>
       ELSE /\ directories' = EnsureParentDirectories(directories, FullPathOf(memoryPath))
            /\ calls' = [active |-> FnSet(calls.active, id,
                                          [path |-> memoryPath, content |-> content,
                                           pc |-> "ensured",
                                           wrote |-> IF directories' # directories
                                                     THEN {currentBranch} ELSE {}]),
                         overlapped |-> calls.overlapped \/ DOMAIN calls.active # {}]
            /\ UNCHANGED last
    /\ UNCHANGED <<files, accessTimes, modifiedTimes, tldrs>>
    /\ SwitchFrame

\* lines 818-821: the file is put into the files of the current branch
BranchStoreFile(id) ==
    /\ id \in DOMAIN calls.active
    /\ calls.active[id].pc = "ensured"
    /\ files' = MapSet(files, FullPathOf(calls.active[id].path),
                       [content |-> calls.active[id].content, modified |-> Now])
    /\ calls' = [calls EXCEPT !.active[id].pc = "stored",
                              !.active[id].wrote = @ \cup {currentBranch}]
    /\ UNCHANGED <<directories, accessTimes, modifiedTimes, tldrs, last>>
    /\ SwitchFrame

\* lines 823-825: the access time goes to the access times of the current branch
BranchStampAccess(id) ==
    /\ id \in DOMAIN calls.active
    /\ calls.active[id].pc = "stored"
    /\ accessTimes' = FnSet(accessTimes, FullPathOf(calls.active[id].path), Now)
    /\ calls' = [calls EXCEPT !.active[id].pc = "accessed",
                              !.active[id].wrote = @ \cup {currentBranch}]
    /\ UNCHANGED <<files, directories, modifiedTimes, tldrs, last>>
    /\ SwitchFrame

\* lines 827-829: the modify time likewise, and create returns
BranchStampModified(id) ==
    /\ id \in DOMAIN calls.active
    /\ calls.active[id].pc = "accessed"
    /\ modifiedTimes' = FnSet(modifiedTimes, FullPathOf(calls.active[id].path), Now)
    /\ calls' = [calls EXCEPT !.active = FnDelete(calls.active, id)]
    /\ last' = Call("create", "ok")
    /\ UNCHANGED <<files, directories, accessTimes, tldrs>>
    /\ SwitchFrame

\* The branch-aware store with one create at a time in flight, branches
\* being checked out while it is, and deletes between the calls
SwitchPaths == {PathAF}
SwitchNames == {MainBranch, <<"a", ".", "@">>}

NextSwitch ==
    \/ \E name \in SwitchNames : OnDidChange(name)
    \/ \E p \in SwitchPaths, c \in BranchContents : BranchBeginCreate(1, p, c)
    \/ BranchStoreFile(1)
    \/ BranchStampAccess(1)
    \/ BranchStampModified(1)
    \/ DOMAIN calls.active = {} /\ \E p \in SwitchPaths : Delete(p)

SpecSwitch == InitBranch /\ [][NextSwitch]_vars

\* Either store called with paths that omit the root segment.
NextRooted ==
    \/ \E p \in RootedPaths : ReadRaw(p)
    \/ \E p \in RootedPaths, c \in Contents : Create(p, c)
    \/ \E p \in RootedPaths, o \in OldStrs, n \in NewStrs : StrReplace(p, o, n)
    \/ \E p \in RootedPaths : Delete(p)
    \/ \E p \in RootedPaths : SecretReadRaw(p)
    \/ \E p \in RootedPaths, c \in Contents : SecretCreate(p, c)
    \/ \E p \in RootedPaths, o \in OldStrs, n \in NewStrs : SecretStrReplace(p, o, n)
    \/ \E p \in RootedPaths : SecretDelete(p)

SpecRooted == (Init \/ InitSecret) /\ [][NextRooted]_vars

\* Either store called with a path and with the same path and a trailing
\* slash: every call of Next and of NextSecret.
SlashPaths == {PathA, PathATrailing, PathAF}

NextSlash ==
    \/ \E p \in SlashPaths : View(p)
    \/ \E p \in SlashPaths : ReadRaw(p)
    \/ \E p \in SlashPaths, c \in Contents : Create(p, c)
    \/ \E p \in SlashPaths, o \in OldStrs, n \in NewStrs : StrReplace(p, o, n)
    \/ \E p \in SlashPaths, l \in InsertLines, t \in InsertTexts : Insert(p, l, t)
    \/ \E p \in SlashPaths : Delete(p)
    \/ \E p, q \in SlashPaths : Rename(p, q)
    \/ \E p \in SlashPaths : SecretView(p)
    \/ \E p \in SlashPaths : SecretReadRaw(p)
    \/ \E p \in SlashPaths, c \in Contents : SecretCreate(p, c)
    \/ \E p \in SlashPaths, o \in OldStrs, n \in NewStrs : SecretStrReplace(p, o, n)
    \/ \E p \in SlashPaths, l \in InsertLines, t \in InsertTexts : SecretInsert(p, l, t)
    \/ \E p \in SlashPaths : SecretDelete(p)
    \/ \E p, q \in SlashPaths : SecretRename(p, q)

SpecSlash == (Init \/ InitSecret) /\ [][NextSlash]_vars

\* Either store filled and emptied before it is listed.
NextList ==
    \/ \E p \in ListPaths, c \in Contents : Create(p, c)
    \/ \E p \in ListPaths : Delete(p)
    \/ \E p, q \in ListPaths : Rename(p, q)
    \/ \E p \in ListPaths, c \in Contents : SecretCreate(p, c)
    \/ \E p \in ListPaths : SecretDelete(p)
    \/ \E p, q \in ListPaths : SecretRename(p, q)

SpecList == (Init \/ InitSecret) /\ [][NextList]_vars

\* Either store with pinned entries that are renamed and deleted.
PinPaths == {PathA, PathAF, PathB}
PinContents == {<<"x">>}

NextPins ==
    \/ \E p \in PinPaths, c \in PinContents : Create(p, c)
    \/ \E p \in PinPaths : Delete(p)
    \/ \E p, q \in PinPaths : Rename(p, q)
    \/ \E k \in StoredPaths : PinListed(k)
    \/ \E p \in PinPaths, c \in PinContents : SecretCreate(p, c)
    \/ \E p \in PinPaths : SecretDelete(p)
    \/ \E p, q \in PinPaths : SecretRename(p, q)
    \/ \E k \in StoredPaths : SecretPinListed(k)

SpecPins == (Init \/ InitSecret) /\ [][NextPins]_vars

-----------------------------------------------------------------------------
(* The language-model tool and its activity log: tools.ts, activityLogger.ts *)

\* MemoryActivityLogger keeps the newest maxLogs entries (1000, line 320 of
\* tools.ts); the model keeps this many.
MaxLogs == 3

\* MemoryActivityLogger.log, lines 313-330: the entry goes to the front and
\* the list is cut to the newest maxLogs.  The details of an entry are a
\* message for the reader and are left out.
Log(command, path, success) ==
    LET entry == [timestamp |-> clock, command |-> command, path |-> path,
                  success |-> success]
        unshifted == <<entry>> \o logs
    IN  IF Len(unshifted) > MaxLogs THEN SubSeq(unshifted, 1, MaxLogs) ELSE unshifted

\* IMemoryParameters: the input of one tool call.  A field the command does
\* not have is <<>> or 0 here; rename's old_path is the field path.
ToolCall(command, path, text, oldStr, line, newPath) ==
    [command |-> command, path |-> path, text |-> text, old_str |-> oldStr,
     insert_line |-> line, new_path |-> newPath]

\* the storage the tool holds for the workspace (getStorage, lines 36-60) is
\* one of the adapters; the call goes to the one constructed
OnStorage(onMemento, onSecrets) ==
    \/ onMemento /\ UNCHANGED secVars
    \/ onSecrets /\ UNCHANGED wsVars

\* The switch of invoke, lines 96-133: the storage call of the command
StorageCall(params) ==
    CASE params.command = "view" ->
             OnStorage(WSView(params.path), SecretStorageView(params.path))
      [] params.command = "create" ->
             OnStorage(WSCreate(params.path, params.text),
                       SecretStorageCreate(params.path, params.text))
      [] params.command = "str_replace" ->
             OnStorage(WSStrReplace(params.path, params.old_str, params.text),
                       SecretStorageStrReplace(params.path, params.old_str, params.text))
      [] params.command = "insert" ->
             OnStorage(WSInsert(params.path, params.insert_line, params.text),
                       SecretStorageInsert(params.path, params.insert_line, params.text))
      [] params.command = "delete" ->
             OnStorage(WSDelete(params.path), SecretStorageDelete(params.path))
      [] params.command = "rename" ->
             OnStorage(WSRename(params.path, params.new_path),
                       SecretStorageRename(params.path, params.new_path))

ToolCommands == {"view", "create", "str_replace", "insert", "delete", "rename"}

ToolFrame == UNCHANGED <<adapter, clock, pathIn, pathOut, textVars, sideVars, agentsMd, logged>>

\* invoke as it would be if the catch logged what the case logs
InvokeLoggingSuccess(params) ==
    /\ params.command \in ToolCommands
    /\ StorageCall(params)
    /\ logs' = Log(params.command, params.path, TRUE)
    /\ hostOut' = [fn |-> "invoke", outcome |-> "result"]
    /\ ToolFrame
    /\ WithinBounds'

\* MemoryTool.invoke with a workspace folder open, lines 71-169, on one of
\* the six commands: the storage call runs inside the try; when it returns,
\* the case logs success and the text is returned (lines 96-141); when it
\* throws, the catch logs the failure against the same path and returns the
\* message (lines 143-168).
Invoke(params) ==
    /\ params.command \in ToolCommands
    /\ StorageCall(params)
    /\ logs' = Log(params.command, params.path, last'.outcome = "ok")
    /\ hostOut' = [fn |-> "invoke", outcome |-> "result"]
    /\ ToolFrame
    /\ WithinBounds'

\* invoke on a command that is none of the six, lines 135-141: no storage
\* call is made, the entry is ('unknown', '', false)
InvokeUnknown(params) ==
    /\ params.command \notin ToolCommands
    /\ logs' = Log("unknown", <<>>, FALSE)
    /\ hostOut' = [fn |-> "invoke", outcome |-> "result"]
    /\ UNCHANGED <<wsVars, secVars, pinned, last>>
    /\ ToolFrame

\* invoke with no workspace folder open, lines 78-86
InvokeWithoutWorkspace(params) ==
    /\ logs' = Log(params.command, <<>>, FALSE)
    /\ hostOut' = [fn |-> "invoke", outcome |-> "result"]
    /\ UNCHANGED <<wsVars, secVars, pinned, last>>
    /\ ToolFrame

\* The tool at work on either store: one call of each command that can
\* succeed, one on a path that is refused, and one unknown command
ToolText == <<"x">>
ToolCalls ==
    {ToolCall("view", PathA, <<>>, <<>>, 0, <<>>),
     ToolCall("create", PathA, ToolText, <<>>, 0, <<>>),
     ToolCall("create", PathRelative, ToolText, <<>>, 0, <<>>),
     ToolCall("str_replace", PathA, ToolText, ToolText, 0, <<>>),
     ToolCall("insert", PathA, ToolText, <<>>, 0, <<>>),
     ToolCall("delete", PathA, <<>>, <<>>, 0, <<>>),
     ToolCall("rename", PathA, <<>>, <<>>, 0, PathB),
     ToolCall("list", <<>>, <<>>, <<>>, 0, <<>>)}

NextTool ==
    \/ \E params \in ToolCalls : Invoke(params)
    \/ \E params \in ToolCalls : InvokeUnknown(params)
    \/ \E params \in {call \in ToolCalls : call.command = "view"} :
           InvokeWithoutWorkspace(params)

SpecTool == (Init \/ InitSecret) /\ [][NextTool]_vars

-----------------------------------------------------------------------------
(* The mirror of the memory files in AGENTS.md: agentsMdSync.ts *)

\* what listFiles of the adapter constructed returns
StorageListFiles == IF adapter = "secret" THEN SecretListFilesSorted ELSE WSListFilesSorted

\* line 43: the entries of the listing that are files
MemoryFiles == SelectSeq(StorageListFiles, LAMBDA f : ~f.isDirectory)

\* how readRaw of the adapter constructed ends on a path
StorageReadRawOutcome(memoryPath) ==
    IF adapter = "secret" THEN SecretReadRawOutcome(memoryPath)
    ELSE WSReadRawOutcome(memoryPath)

\* generateMemorySection, lines 84-94, on WorkspaceStateStorage: readRaw of
\* each listed file in turn stamps the access time of its path
RECURSIVE WSReadEach(_, _)
WSReadEach(times, list) ==
    IF list = <<>> THEN times
    ELSE WSReadEach(IF Accepts(Head(list).path)
                    THEN FnSet(times, FullPathOf(Head(list).path), Now)
                    ELSE times,
                    Tail(list))

\* the same on SecretMemoryStorage: readRaw stamps the file's index entry
RECURSIVE SecretReadEach(_, _)
SecretReadEach(index, list) ==
    IF list = <<>> THEN index
    ELSE SecretReadEach(IF /\ Accepts(Head(list).path)
                           /\ IsFileEntry(index, FullPathOf(Head(list).path))
                        THEN Accessed(index, FullPathOf(Head(list).path))
                        ELSE index,
                        Tail(list))

\* generateMemorySection, lines 74-97: a <file> section for each listed file
\* that readRaw returned; a file whose read throws is skipped (lines 90-93).
\* The section is kept as the set of the paths in it.
MemorySection ==
    {MemoryFiles[i].path : i \in {j \in 1..Len(MemoryFiles) :
                                      StorageReadRawOutcome(MemoryFiles[j].path) = "ok"}}

\* the errors the calls inside syncToAgentsMd can raise from outside the
\* adapter's own logic: the listing (line 42), fs.readFile with an error
\* other than FileNotFound (lines 51-57), fs.writeFile (line 64)
SyncFaults == {"none", "listFiles", "readFile", "writeFile"}

\* the adapter call syncToAgentsMd made last
LastOfSync(fault) ==
    IF fault = "listFiles" THEN Call("listFiles", "Error")
    ELSE IF MemoryFiles = <<>> THEN Call("listFiles", "ok")
    ELSE Call("readRaw", StorageReadRawOutcome(MemoryFiles[Len(MemoryFiles)].path))

SyncFrame == UNCHANGED <<adapter, clock, pathIn, pathOut, textVars, sideVars, logs, logged, pinned,
                         files, directories, modifiedTimes, tldrs, secrets, secretTldrs>>

\* syncToAgentsMd as it would be without the catch of lines 65-68
SyncToAgentsMdUncaught(isEnabled, fault) ==
    /\ hostOut' = [fn |-> "syncToAgentsMd",
                   outcome |-> IF isEnabled /\ fault # "none" THEN "rejected" ELSE "resolved"]
    /\ IF ~isEnabled
       THEN UNCHANGED <<accessTimes, metadata, last, agentsMd>>
       ELSE /\ last' = LastOfSync(fault)
            /\ IF fault = "listFiles"
               THEN UNCHANGED <<accessTimes, metadata, agentsMd>>
               ELSE /\ IF adapter = "secret"
                       THEN metadata' = SecretReadEach(metadata, MemoryFiles)
                                /\ UNCHANGED accessTimes
                       ELSE accessTimes' = WSReadEach(accessTimes, MemoryFiles)
                                /\ UNCHANGED metadata
                    /\ IF fault = "none"
                       THEN agentsMd' = [exists |-> TRUE, mirrored |-> MemorySection]
                       ELSE UNCHANGED agentsMd
    /\ SyncFrame

\* syncToAgentsMd, lines 32-69.  Disabled, it returns at once (lines 33-35).
\* Enabled, it lists the storage, reads each file (which stamps its access
\* time), reads AGENTS.md (a missing file is an empty one, lines 50-58) and
\* writes it back with the memory section replaced or appended (lines
\* 61-64).  Whatever is thrown on the way is caught and printed (lines
\* 65-68): the file is then left as it was and the promise resolves.
SyncToAgentsMd(isEnabled, fault) ==
    /\ hostOut' = [fn |-> "syncToAgentsMd", outcome |-> "resolved"]
    /\ IF ~isEnabled
       THEN UNCHANGED <<accessTimes, metadata, last, agentsMd>>
       ELSE /\ last' = LastOfSync(fault)
            /\ IF fault = "listFiles"
               THEN UNCHANGED <<accessTimes, metadata, agentsMd>>
               ELSE /\ IF adapter = "secret"
                       THEN metadata' = SecretReadEach(metadata, MemoryFiles)
                                /\ UNCHANGED accessTimes
                       ELSE accessTimes' = WSReadEach(accessTimes, MemoryFiles)
                                /\ UNCHANGED metadata
                    /\ IF fault = "none"
                       THEN agentsMd' = [exists |-> TRUE, mirrored |-> MemorySection]
                       ELSE UNCHANGED agentsMd
    /\ SyncFrame

\* Either store with the mirror: files come and go, and the sync runs with
\* the setting on or off and with each of the errors raised inside it
NextSync ==
    \/ \E p \in PinPaths, c \in PinContents : Create(p, c)
    \/ \E p \in PinPaths : Delete(p)
    \/ \E p \in PinPaths, c \in PinContents : SecretCreate(p, c)
    \/ \E p \in PinPaths : SecretDelete(p)
    \/ \E isEnabled \in BOOLEAN, fault \in SyncFaults : SyncToAgentsMd(isEnabled, fault)

SpecSync == (Init \/ InitSecret) /\ [][NextSync]_vars

-----------------------------------------------------------------------------
(* The Clear All Memory Files command: tools.ts *)

\* whether a clearAllMemoryFiles call is between two of its awaits
Clearing == hostOut.fn = "clearAllMemoryFiles" /\ hostOut.outcome = "running"

\* the call's position: the listed files it has yet to delete
ClearingOf(todo) ==
    [fn |-> "clearAllMemoryFiles",
     outcome |-> IF todo = <<>> THEN "resolved" ELSE "running",
     todo |-> todo]

\* clearAllMemoryFiles with a workspace folder open, lines 247-254: the
\* storage is listed once, and the entries that are files are the ones the
\* loop will delete
ClearAllMemoryFiles ==
    /\ ~Clearing
    /\ hostOut' = ClearingOf(MemoryFiles)
    /\ UNCHANGED <<wsVars, secVars, pinned, last, logs, agentsMd, logged>>
    /\ UNCHANGED <<adapter, clock, pathIn, pathOut, textVars, sideVars>>

\* One turn of the loop, lines 257-265: delete of the next listed file,
\* logged as a success when it returns and as a failure when it throws; the
\* loop goes on either way, and the call resolves after the last turn
ClearNextFile ==
    /\ Clearing
    /\ OnStorage(WSDelete(Head(hostOut.todo).path),
                 SecretStorageDelete(Head(hostOut.todo).path))
    /\ logs' = Log("delete", Head(hostOut.todo).path, last'.outcome = "ok")
    /\ hostOut' = ClearingOf(Tail(hostOut.todo))
    /\ ToolFrame

\* Either store with the command: files are created while no
\* clearAllMemoryFiles call is under way, and the command runs
ClearPaths == {PathA, PathAF, PathB}

NextClear ==
    \/ ~Clearing /\ \E p \in ClearPaths, c \in PinContents : Create(p, c)
    \/ ~Clearing /\ \E p \in ClearPaths, c \in PinContents : SecretCreate(p, c)
    \/ ClearAllMemoryFiles
    \/ ClearNextFile

SpecClear == (Init \/ InitSecret) /\ [][NextClear]_vars

\* Either store with its summaries and pins: the calls of Next and of
\* NextSecret on fewer paths, and setTldr, deleteTldr and the pin command.
InitMeta == Init \/ InitSecret

NextMeta ==
    \/ \E p \in MetaPaths : View(p)
    \/ \E p \in MetaPaths : ReadRaw(p)
    \/ \E p \in MetaPaths, c \in Contents : Create(p, c)
    \/ \E p \in MetaPaths, o \in OldStrs, n \in NewStrs : StrReplace(p, o, n)
    \/ \E p \in MetaPaths, l \in InsertLines, t \in InsertTexts : Insert(p, l, t)
    \/ \E p \in MetaPaths : Delete(p)
    \/ \E p, q \in MetaPaths : Rename(p, q)
    \/ \E p \in MetaPaths, t \in Tldrs : SetTldr(p, t)
    \/ \E p \in MetaPaths : DeleteTldr(p)
    \/ \E k \in StoredPaths : PinListed(k)
    \/ \E p \in MetaPaths : SecretView(p)
    \/ \E p \in MetaPaths : SecretReadRaw(p)
    \/ \E p \in MetaPaths, c \in Contents : SecretCreate(p, c)
    \/ \E p \in MetaPaths, o \in OldStrs, n \in NewStrs : SecretStrReplace(p, o, n)
    \/ \E p \in MetaPaths, l \in InsertLines, t \in InsertTexts : SecretInsert(p, l, t)
    \/ \E p \in MetaPaths : SecretDelete(p)
    \/ \E p, q \in MetaPaths : SecretRename(p, q)
    \/ \E p \in MetaPaths, t \in Tldrs : SecretSetTldr(p, t)
    \/ \E p \in MetaPaths : SecretDeleteTldr(p)

SpecMeta == InitMeta /\ [][NextMeta]_vars

\* Either store while time passes: two sibling names, texts in which the old
\* string occurs once and twice, and a clock that advances between calls.
MaxClock == 2

TimedPaths == {PathA, PathB}

TimedContents == {<<"x">>, <<"x", "x">>}

TimedInsertTexts == {<<>>}

Tick ==
    /\ clock < MaxClock
    /\ clock' = clock + 1
    /\ UNCHANGED <<adapter, wsVars, secVars, pinned, last, pathIn, pathOut, textVars, sideVars, hostVars>>

NextTimed ==
    \/ Tick
    \/ \E p \in TimedPaths : ReadRaw(p)
    \/ \E p \in TimedPaths, c \in TimedContents : Create(p, c)
    \/ \E p \in TimedPaths, o \in OldStrs, n \in NewStrs : StrReplace(p, o, n)
    \/ \E p \in TimedPaths, l \in InsertLines, t \in TimedInsertTexts : Insert(p, l, t)
    \/ \E p \in TimedPaths : Delete(p)
    \/ \E p, q \in TimedPaths : Rename(p, q)
    \/ \E p \in TimedPaths, t \in Tldrs : SetTldr(p, t)
    \/ \E p \in TimedPaths : SecretReadRaw(p)
    \/ \E p \in TimedPaths, c \in TimedContents : SecretCreate(p, c)
    \/ \E p \in TimedPaths, o \in OldStrs, n \in NewStrs : SecretStrReplace(p, o, n)
    \/ \E p \in TimedPaths, l \in InsertLines, t \in TimedInsertTexts : SecretInsert(p, l, t)
    \/ \E p \in TimedPaths : SecretDelete(p)
    \/ \E p, q \in TimedPaths : SecretRename(p, q)
    \/ \E p \in TimedPaths, t \in Tldrs : SecretSetTldr(p, t)

SpecTimed == InitMeta /\ [][NextTimed]_vars

\* WorkspaceStateStorage with the paths whose ancestors are walked: create,
\* delete and rename on the root, names under it and a path under a sibling
\* of the root
NextAncestors ==
    \/ \E p \in AncestorPaths, c \in Contents : Create(p, c)
    \/ \E p \in AncestorPaths : Delete(p)
    \/ \E p, q \in AncestorPaths : Rename(p, q)

SpecAncestors == Init /\ [][NextAncestors]_vars

\* The logger on its own: log and clear are called with the clock running.
\* A run hands log at most MaxLogged entries between two clears.
MaxLogged == 5

LogCommands == {"view", "create"}

LogFrame == UNCHANGED <<adapter, wsVars, secVars, pinned, clock, last, pathIn, pathOut,
                        textVars, sideVars, hostOut, agentsMd>>

\* log as it would be if the entry went to the end of the list
RunLogPushing(command, path, success) ==
    /\ Len(logged) < MaxLogged
    /\ LET entry == [timestamp |-> clock, command |-> command, path |-> path,
                     success |-> success]
       IN  /\ logs' = (IF Len(logs) + 1 > MaxLogs
                       THEN SubSeq(logs \o <<entry>>, 1, MaxLogs)
                       ELSE logs \o <<entry>>)
           /\ logged' = <<entry>> \o logged
    /\ LogFrame

\* a call of MemoryActivityLogger.log, lines 313-330
RunLog(command, path, success) ==
    /\ Len(logged) < MaxLogged
    /\ logs' = Log(command, path, success)
    /\ logged' = <<[timestamp |-> clock, command |-> command, path |-> path,
                    success |-> success]>> \o logged
    /\ LogFrame

\* a call of MemoryActivityLogger.clear, lines 336-339
RunClear ==
    /\ logs' = <<>>
    /\ logged' = <<>>
    /\ LogFrame

NextLog ==
    \/ Tick
    \/ \E command \in LogCommands, success \in BOOLEAN : RunLog(command, PathA, success)
    \/ RunClear

SpecLog == Init /\ [][NextLog]_vars

-----------------------------------------------------------------------------
(* What the store holds *)

KnownDirectories == KeySet(directories)

ExistingFiles == DOMAIN files.v

\* the path's proper ancestors up to the root: dirname, repeated
RECURSIVE AncestorsUpToRoot(_)
AncestorsUpToRoot(key) ==
    IF key = MEMORIES_DIR \/ PosixDirname(key) = key THEN {}
    ELSE {PosixDirname(key)} \cup AncestorsUpToRoot(PosixDirname(key))

\* key is at or under the directory path dir
AtOrUnder(key, dir) == key = dir \/ StartsWith(key, dir \o Slash)

\* the path an entry under oldFull is remapped to by a rename to newFull
Remapped(key, oldFull, newFull) == newFull \o SliceFrom(key, Len(oldFull))

-----------------------------------------------------------------------------
(* Properties of the workspace-state adapter *)

\* C1: after any sequence of calls the root '/memories' is still a known
\* directory and view('/memories') succeeds.
C1_RootRemainsDirectory ==
    /\ MEMORIES_DIR \in KnownDirectories
    /\ WSViewOutcome(MEMORIES_DIR) = "ok"

\* C2: every proper ancestor, up to the root, of every existing file or
\* directory is itself a known directory.
C2_AncestorsAreDirectories ==
    \A key \in ExistingFiles \cup KnownDirectories :
        AncestorsUpToRoot(key) \subseteq KnownDirectories

\* C3: no path is at the same time a file and a directory.
C3_OneKindPerPath == ExistingFiles \cap KnownDirectories = {}

\* C5: rename(a, b) of an existing file a to a valid path b leaves at b the
\* content readRaw(a) returned before, and view(a) then fails with NotFound.
C5_RenameMovesFile ==
    [][\A a \in ValidPaths, b \in ValidPaths :
          (Rename(a, b) /\ FullPathOf(a) \in ExistingFiles)
              => /\ WSReadRawOutcome(b)' = "ok"
                 /\ WSReadRawText(b)' = WSReadRawText(a)
                 /\ WSViewOutcome(a)' = "NotFound"]_vars

\* C6: after delete(dir) of an existing directory dir, listAll() contains no
\* entry whose path starts with dir.
C6_DeleteEmptiesSubtree ==
    [][\A p \in ValidPaths :
          (Delete(p) /\ FullPathOf(p) \in KnownDirectories)
              => \A e \in WSListFiles' : ~StartsWith(e.path, FullPathOf(p))]_vars

\* C9: create(p, c) never fails for a path validation accepts; afterwards the
\* file at p holds c, every other file is as before, and no directory is
\* removed.
C9_CreateAlwaysSucceeds ==
    [][\A p \in ValidPaths, c \in Contents :
          Create(p, c)
              => /\ last'.outcome = "ok"
                 /\ FullPathOf(p) \in ExistingFiles'
                 /\ files'.v[FullPathOf(p)].content = c
                 /\ \A key \in ExistingFiles \ {FullPathOf(p)} :
                        key \in ExistingFiles' /\ files'.v[key] = files.v[key]
                 /\ ExistingFiles' \subseteq ExistingFiles \cup {FullPathOf(p)}
                 /\ KnownDirectories \subseteq KnownDirectories']_vars

\* C10: rename(old, new) of an existing directory old to a valid path new,
\* neither old nor nested under old and with nothing at it, puts every file
\* of old at the same relative path under new with the same content, remaps
\* every subdirectory the same way, and leaves nothing at or under old.
C10_RenameRemapsSubtree ==
    [][\A old \in ValidPaths, new \in ValidPaths :
          (/\ Rename(old, new)
           /\ FullPathOf(old) \in KnownDirectories
           /\ ~AtOrUnder(FullPathOf(new), FullPathOf(old))
           /\ FullPathOf(new) \notin ExistingFiles \cup KnownDirectories)
              => LET oldFull == FullPathOf(old)
                     newFull == FullPathOf(new)
                 IN  /\ \A key \in ExistingFiles :
                            StartsWith(key, oldFull \o Slash)
                                => /\ Remapped(key, oldFull, newFull) \in ExistingFiles'
                                   /\ files'.v[Remapped(key, oldFull, newFull)].content
                                          = files.v[key].content
                     /\ \A d \in KnownDirectories :
                            AtOrUnder(d, oldFull)
                                => Remapped(d, oldFull, newFull) \in KnownDirectories'
                     /\ \A key \in ExistingFiles' \cup KnownDirectories' :
                            ~AtOrUnder(key, oldFull)]_vars

\* the raw paths validateMemoryPath rejects
InvalidPaths == AllPaths \ ValidPaths

\* a call of any operation with memoryPath as its path, or as one of the two
\* paths of rename
CalledWith(memoryPath) ==
    \/ View(memoryPath)
    \/ ReadRaw(memoryPath)
    \/ \E c \in Contents : Create(memoryPath, c)
    \/ \E o \in OldStrs, n \in NewStrs : StrReplace(memoryPath, o, n)
    \/ \E l \in InsertLines, t \in InsertTexts : Insert(memoryPath, l, t)
    \/ Delete(memoryPath)
    \/ \E q \in MetaPaths : Rename(memoryPath, q) \/ Rename(q, memoryPath)
    \/ \E t \in Tldrs : SetTldr(memoryPath, t)
    \/ DeleteTldr(memoryPath)
    \/ SecretView(memoryPath)
    \/ SecretReadRaw(memoryPath)
    \/ \E c \in Contents : SecretCreate(memoryPath, c)
    \/ \E o \in OldStrs, n \in NewStrs : SecretStrReplace(memoryPath, o, n)
    \/ \E l \in InsertLines, t \in InsertTexts : SecretInsert(memoryPath, l, t)
    \/ SecretDelete(memoryPath)
    \/ \E q \in MetaPaths : SecretRename(memoryPath, q) \/ SecretRename(q, memoryPath)
    \/ \E t \in Tldrs : SecretSetTldr(memoryPath, t)
    \/ SecretDeleteTldr(memoryPath)

-----------------------------------------------------------------------------
(* Properties of the encrypted-store adapter and of the path functions *)

\* C4: create(p, c) followed directly by readRaw(p) returns exactly c, the
\* empty string included.
C4_CreateThenReadRaw ==
    [][\A p \in ValidPaths, c \in Contents :
          SecretCreate(p, c)
              => /\ SecretReadRawOutcome(p)' = "ok"
                 /\ SecretReadRawText(p)' = c]_vars

\* the paths the index records as files
IndexedFiles == {key \in DOMAIN metadata.v : ~metadata.v[key].isDirectory}

\* C13: in the encrypted store, after every call of a serialized sequence, a
\* path is recorded as a file in the metadata index if and only if a content
\* value is stored under that path's secret key.
C13_IndexMatchesContents ==
    /\ \A key \in IndexedFiles : SecretKey(key) \in DOMAIN secrets
    /\ \A secretKey \in DOMAIN secrets : \E key \in IndexedFiles : SecretKey(key) = secretKey

\* every call has returned, and a content lies under the key of a path the
\* index does not record as a file
LostUpdate ==
    /\ DOMAIN calls.active = {}
    /\ \E p \in ValidPaths :
           SecretKeyOf(p) \in DOMAIN secrets /\ FullPathOf(p) \notin IndexedFiles

\* C14: two create calls of one instance that overlap can interleave their
\* read and write of the index so that both contents are stored and the
\* index records one file only; when no two calls ever overlap, every stored
\* content has its file in the index once the calls have returned.
C14_LostUpdateNeedsOverlap == LostUpdate => calls.overlapped

\* two overlapping creates have returned: both contents are stored, and the
\* index records one of the two files
C14_Witness ==
    /\ DOMAIN calls.active = {}
    /\ calls.overlapped
    /\ {SecretKeyOf(PathA), SecretKeyOf(PathB)} \subseteq DOMAIN secrets
    /\ Cardinality(IndexedFiles) = 1

\* C21: for every path validateMemoryPath accepts, normalizeMemoryPath of
\* the normalized path is the normalized path again, and validateMemoryPath
\* accepts the normalized path.
C21_NormalizeIsIdempotent ==
    (pathOut.fn = "normalizeMemoryPath" /\ IsValidPath(pathIn))
        => /\ NormalizeMemoryPath(pathOut.key) = pathOut.key
           /\ IsValidPath(pathOut.key)

\* the second half of C21 alone
NormalizedStaysValid ==
    (pathOut.fn = "normalizeMemoryPath" /\ IsValidPath(pathIn)) => IsValidPath(pathOut.key)

\* the key is the root or begins with the root and a slash
UnderRoot(key) == key = MEMORIES_DIR \/ StartsWith(key, MEMORIES_DIR \o Slash)

\* the key has a '..' path segment
HasTraversalSegment(key) ==
    \E i \in 1..Len(SplitChar(key, "/")) : SplitChar(key, "/")[i] = DotDot

\* the key has a control character
HasControlChar(key) == \E i \in 1..Len(key) : key[i] \in ControlChars

\* C8: for every path validation accepts, the key a backend stores or looks
\* up the entry under is the root or begins with '/memories/', and has no
\* '..' segment and no control character.
C8_KeysStayUnderRoot ==
    (pathOut.fn \in {"getFullPath", "getSecretKey"} /\ pathOut.outcome = "ok")
        => /\ UnderRoot(pathOut.key)
           /\ ~HasTraversalSegment(pathOut.key)
           /\ ~HasControlChar(pathOut.key)

-----------------------------------------------------------------------------
(* Properties of the text functions *)

\* the 0-based positions of text at which oldStr occurs, overlapping ones
\* included
OccurrencesOf(text, oldStr) ==
    {i \in 0..(Len(text) - Len(oldStr)) : SubSeq(text, i + 1, i + Len(oldStr)) = oldStr}

\* text.split('\n').length
LineCount(text) == Len(SplitChar(text, "\n"))

\* a list without the element at a 0-based position
RemoveAt(list, position) ==
    SubSeq(list, 1, position) \o SubSeq(list, position + 2, Len(list))

\* C17: when oldStr occurs exactly once in text, replaceFirst returns the text
\* before the occurrence, then newStr character for character, then the text
\* after the occurrence, whatever newStr is ('$&' and '$$' included).
C17_ReplacementIsLiteral ==
    (textOut.fn = "replaceFirst" /\ Cardinality(OccurrencesOf(textIn.text, textIn.oldStr)) = 1)
        => LET at == CHOOSE i \in OccurrencesOf(textIn.text, textIn.oldStr) : TRUE
           IN  /\ textOut.result.outcome = "ok"
               /\ textOut.result.text
                      = SubSeq(textIn.text, 1, at) \o textIn.newStr
                          \o SubSeq(textIn.text, at + Len(textIn.oldStr) + 1, Len(textIn.text))

\* C18: replaceFirst fails with NotFound exactly when oldStr occurs at no
\* position of text, and with Ambiguous exactly when it occurs at two or more
\* positions (overlapping ones included), stating that number of occurrences;
\* the text is not changed in either case.
C18_FailureMatchesOccurrences ==
    textOut.fn = "replaceFirst"
        => LET occurrences == Cardinality(OccurrencesOf(textIn.text, textIn.oldStr))
           IN  /\ textOut.result.outcome = "NotFoundText" <=> occurrences = 0
               /\ textOut.result.outcome = "Ambiguous" <=> occurrences >= 2
               /\ textOut.result.outcome = "Ambiguous" => textOut.result.count = occurrences
               /\ textOut.result.outcome # "ok" => textOut.result.text = textIn.text

NumberedLines(text, first, through) ==
    JoinWith([i \in 1..(IF through >= first THEN through - first + 1 ELSE 0) |->
                 PadStart(StringOf(first + i - 1), 4) \o <<":", " ">>
                     \o SplitChar(text, "\n")[first + i - 1]],
             <<"\n">>)

\* C20: view of a file without a range renders every line, numbered from 1;
\* with a range [s, e], s >= 1, it renders the lines s through
\* min(e, lineCount) (through the last line when e = -1), each behind its own
\* line number, so that the first rendered line carries the number s.
C20_ViewRendersRange ==
    textOut.fn = "view"
        => LET count == LineCount(textIn.text)
               range == textIn.viewRange
           IN  /\ range = <<>> => textOut.result.text = NumberedLines(textIn.text, 1, count)
               /\ (range # <<>> /\ range[1] >= 1)
                      => textOut.result.text
                             = NumberedLines(textIn.text, range[1],
                                             IF range[2] = -1 \/ range[2] > count
                                             THEN count ELSE range[2])

-----------------------------------------------------------------------------
(* Properties of the stores while time passes *)

\* C11: after rename(a, b) of a file to another path, the modification time,
\* the access time and the summary reported for b are those reported for a
\* just before (no summary when a had none, even if b had one), and nothing
\* remains recorded for a; in both adapters.
C11_RenamePreservesMetadata ==
    [][\A a \in TimedPaths : \A b \in TimedPaths \ {a} :
          /\ (/\ last'.op = "rename" /\ last'.outcome = "ok"
              /\ adapter = "ws"
              /\ FullPathOf(a) \in ExistingFiles
              /\ Rename(a, b))
                 => /\ WSFileInfo(FullPathOf(b))' = WSFileInfo(FullPathOf(a))
                    /\ FullPathOf(a) \notin DOMAIN accessTimes' \cup DOMAIN modifiedTimes'
                                                \cup DOMAIN tldrs'
          /\ (/\ last'.op = "rename" /\ last'.outcome = "ok"
              /\ adapter = "secret"
              /\ IsFileEntry(metadata, FullPathOf(a))
              /\ SecretRename(a, b))
                 => /\ SecretFileInfo(FullPathOf(b))' = SecretFileInfo(FullPathOf(a))
                    /\ ~Has(metadata', FullPathOf(a))
                    /\ SecretKeyOf(a) \notin DOMAIN secretTldrs']_vars

\* a strReplace, insert or delete call on memoryPath, on either adapter
EditOrDeleteCall(memoryPath) ==
    \/ \E o \in OldStrs, n \in NewStrs : StrReplace(memoryPath, o, n)
    \/ \E l \in InsertLines, t \in TimedInsertTexts : Insert(memoryPath, l, t)
    \/ Delete(memoryPath)
    \/ \E o \in OldStrs, n \in NewStrs : SecretStrReplace(memoryPath, o, n)
    \/ \E l \in InsertLines, t \in TimedInsertTexts : SecretInsert(memoryPath, l, t)
    \/ SecretDelete(memoryPath)

\* the encrypted store's index without the access times: which paths are
\* directories, and every entry's modification time
SecretIndexed ==
    [key \in DOMAIN metadata.v |->
        [isDirectory |-> metadata.v[key].isDirectory, modified |-> metadata.v[key].modified]]

\* the modification time either adapter reports for the file at a path
ModifiedAt(fullPath) ==
    IF adapter = "ws" THEN WSFileInfo(fullPath).lastModified
    ELSE SecretFileInfo(fullPath).lastModified

\* C12: a strReplace, insert or delete call that fails leaves every file's
\* content, the directory set and every modification time as they were; a
\* strReplace or insert call that succeeds sets the target's modification
\* time to the time of the call.
C12_FailedEditChangesNothing ==
    [][\A p \in TimedPaths :
          (last'.op \in {"str_replace", "insert", "delete"} /\ EditOrDeleteCall(p))
              => IF last'.outcome # "ok"
                 THEN /\ UNCHANGED <<files, directories, modifiedTimes, secrets>>
                      /\ SecretIndexed' = SecretIndexed
                 ELSE last'.op # "delete" => ModifiedAt(FullPathOf(p))' = clock]_vars

\* a strReplace has just failed on an ambiguous old string, at a time later
\* than the last modification of the file
C12_Witness ==
    /\ last = Call("str_replace", "Ambiguous")
    /\ \E key \in ExistingFiles :
           /\ Cardinality(OccurrencesOf(files.v[key].content, <<"x">>)) = 2
           /\ files.v[key].modified < clock

-----------------------------------------------------------------------------
(* Properties of the two adapters side by side *)

\* both adapters have made the same calls
InStep == adapter = "ws" /\ pending = NoCall

\* C15: after the same sequence of create, strReplace, insert, delete and
\* rename calls on a fresh workspace-state adapter and a fresh encrypted-store
\* adapter, view(p) and readRaw(p) return the same text from both or fail in
\* both, for every path p.
C15_AdaptersAgree ==
    InStep
        => \A p \in PairPaths :
               /\ WSReadRawOutcome(p) = SecretReadRawOutcome(p)
               /\ WSReadRawOutcome(p) = "ok" => WSReadRawText(p) = SecretReadRawText(p)
               /\ WSViewOutcome(p) = SecretViewOutcome(p)
               /\ WSViewOutcome(p) = "ok" => WSViewText(p) = SecretViewText(p)

-----------------------------------------------------------------------------
(* Properties of the branch-aware store *)

\* the storage key of every branch name, computed once
BranchKeys == [name \in BranchNames |-> SanitizeBranchName(name)]

\* the entries stored for the branch of a name
StoredFor(branchName) == StoredUnder(BranchKeys[branchName])

\* what listFiles and readRaw of every file return when the branch of a name
\* is the current one
SeenOn(branchName) ==
    LET ns == StoredFor(branchName)
    IN [listed |-> BranchListFiles(ns),
        texts |-> [f \in DOMAIN ns.files.v |-> ns.files.v[f].content]]

\* C16: in the branch-aware adapter, no operation made while a branch is the
\* current one changes the entries stored for another branch, and no branch
\* change changes the entries of any branch; so after a change from A to B
\* and back, listFiles and readRaw of every file return on A what they
\* returned before.
C16_BranchesAreIsolated ==
    [][\A b \in BranchNames :
           (b # head \/ head' # head)
               => /\ StoredFor(b)' = StoredFor(b)
                  /\ SeenOn(b)' = SeenOn(b)]_vars

\* this step is a call on the adapter
CallOnBranchStore ==
    \/ \E p \in DetectPaths : ReadRaw(p) \/ Delete(p)
    \/ \E p \in DetectPaths, c \in BranchContents : Create(p, c)

\* C35: in the branch-aware adapter, a call made right after construction,
\* before the detection of the branch has completed, reads and writes the
\* namespace of the branch checked out and never that of the placeholder
\* 'unknown'; a file created then is still there once detection completes
C35_EarlyCallsUseTheBranch ==
    [][/\ CallOnBranchStore => currentBranch = BranchKeys[head]
       /\ InitializeBranch => ExistingFiles \subseteq ExistingFiles']_vars

\* once the detection has completed, every call is made on the namespace of
\* the branch checked out
LateCallsUseTheBranch ==
    [][(currentBranch # UnknownBranch /\ CallOnBranchStore)
           => currentBranch = BranchKeys[head]]_vars

\* this step is a write of the call in flight, and the call has written
\* to the keys of these branches before
WritesAfter(wrote) ==
    /\ 1 \in DOMAIN calls.active
    /\ calls.active[1].wrote = wrote
    /\ BranchStoreFile(1) \/ BranchStampAccess(1) \/ BranchStampModified(1)

\* C36: in the branch-aware adapter all the writes of one operation (files,
\* directories, access times, modify times) go to the namespace of one
\* branch, also when a branch change is delivered between two of them
C36_OneCallWritesOneBranch ==
    [][\A key \in {BranchKeys[name] : name \in SwitchNames} :
           WritesAfter({key}) => currentBranch = key]_vars

\* the same of the calls made before the first branch change
UndisturbedCallWritesOneBranch ==
    [][\A key \in {BranchKeys[name] : name \in SwitchNames} :
           (WritesAfter({key}) /\ key = BranchKeys[head] /\ Cardinality(DOMAIN namespaces) = 0)
               => currentBranch = key]_vars

-----------------------------------------------------------------------------
(* Properties of the paths that omit the root segment *)

\* C22: a path that does not begin with the root segment is accepted and
\* treated as the same path under the root: create('a', c) succeeds, and
\* readRaw('/memories/a') then returns c.
C22_RelativePathIsRooted ==
    [][\A c \in Contents :
           (last'.op = "create" /\ (Create(PathRelative, c) \/ SecretCreate(PathRelative, c)))
               => /\ last'.outcome = "ok"
                  /\ IF adapter = "ws"
                     THEN WSReadRawOutcome(PathA)' = "ok" /\ WSReadRawText(PathA)' = c
                     ELSE SecretReadRawOutcome(PathA)' = "ok" /\ SecretReadRawText(PathA)' = c]_vars

-----------------------------------------------------------------------------
(* Properties of a path with a trailing slash *)

\* a call made with the path and a trailing slash does what the same call
\* made with the path does: it ends the same way and leaves the same store
WSSlashMakesNoDifference ==
    /\ View(PathATrailing) => View(PathA)
    /\ ReadRaw(PathATrailing) => ReadRaw(PathA)
    /\ \A c \in Contents : Create(PathATrailing, c) => Create(PathA, c)
    /\ \A o \in OldStrs, n \in NewStrs : StrReplace(PathATrailing, o, n) => StrReplace(PathA, o, n)
    /\ \A l \in InsertLines, t \in InsertTexts : Insert(PathATrailing, l, t) => Insert(PathA, l, t)
    /\ Delete(PathATrailing) => Delete(PathA)
    /\ \A q \in SlashPaths :
           /\ Rename(PathATrailing, q) => Rename(PathA, q)
           /\ Rename(q, PathATrailing) => Rename(q, PathA)

SecretSlashMakesNoDifference ==
    /\ SecretView(PathATrailing) => SecretView(PathA)
    /\ SecretReadRaw(PathATrailing) => SecretReadRaw(PathA)
    /\ \A c \in Contents : SecretCreate(PathATrailing, c) => SecretCreate(PathA, c)
    /\ \A o \in OldStrs, n \in NewStrs :
           SecretStrReplace(PathATrailing, o, n) => SecretStrReplace(PathA, o, n)
    /\ \A l \in InsertLines, t \in InsertTexts :
           SecretInsert(PathATrailing, l, t) => SecretInsert(PathA, l, t)
    /\ SecretDelete(PathATrailing) => SecretDelete(PathA)
    /\ \A q \in SlashPaths :
           /\ SecretRename(PathATrailing, q) => SecretRename(PathA, q)
           /\ SecretRename(q, PathATrailing) => SecretRename(q, PathA)

\* the text readRaw returns for the path and for the path with a trailing
\* slash is the same, or both calls fail
SlashReadsTheSame ==
    IF adapter = "ws"
    THEN /\ WSReadRawOutcome(PathATrailing) = WSReadRawOutcome(PathA)
         /\ WSReadRawOutcome(PathA) = "ok" => WSReadRawText(PathATrailing) = WSReadRawText(PathA)
    ELSE /\ SecretReadRawOutcome(PathATrailing) = SecretReadRawOutcome(PathA)
         /\ SecretReadRawOutcome(PathA) = "ok"
                => SecretReadRawText(PathATrailing) = SecretReadRawText(PathA)

\* C23: a path and the same path with one trailing '/' address the same
\* entry in every operation of every adapter: view, readRaw, create,
\* strReplace, insert, delete and rename given the path with the slash read
\* and write exactly what they read and write given the path.
C23_TrailingSlashIsSameEntry ==
    [][WSSlashMakesNoDifference /\ SecretSlashMakesNoDifference /\ SlashReadsTheSame']_vars

-----------------------------------------------------------------------------
(* Properties of the listing *)

\* the array listFiles returns
Listed == IF adapter = "ws" THEN WSListFilesSorted ELSE SecretListFilesSorted

\* the entries of the array for a path, as a file or as a directory
EntriesFor(path, isDirectory) ==
    {i \in 1..Len(Listed) : Listed[i].path = path /\ Listed[i].isDirectory = isDirectory}

\* the files and the directories the store holds
FilesHeld == IF adapter = "ws" THEN ExistingFiles ELSE IndexedFiles
DirectoriesHeld == IF adapter = "ws" THEN KnownDirectories ELSE (DOMAIN metadata.v) \ IndexedFiles

\* one entry for each file and each directory but the root, and no other
ListsEveryEntryOnce ==
    /\ \A f \in FilesHeld : Cardinality(EntriesFor(f, FALSE)) = 1
    /\ \A d \in DirectoriesHeld \ {MEMORIES_DIR} : Cardinality(EntriesFor(d, TRUE)) = 1
    /\ Len(Listed) = Cardinality(FilesHeld) + Cardinality(DirectoriesHeld \ {MEMORIES_DIR})

ListsNoRoot == \A i \in 1..Len(Listed) : Listed[i].path # MEMORIES_DIR

\* a <= b in the lexicographic order of the strings' code units
RECURSIVE LexicographicLeq(_, _)
LexicographicLeq(a, b) ==
    IF Len(a) = 0 THEN TRUE
    ELSE IF Len(b) = 0 THEN FALSE
    ELSE IF a[1] = b[1] THEN LexicographicLeq(Tail(a), Tail(b))
    ELSE CharCodeAt(a[1]) < CharCodeAt(b[1])

ListsInLexicographicOrder ==
    \A i \in 1..Len(Listed) : \A j \in i..Len(Listed) :
        LexicographicLeq(Listed[i].path, Listed[j].path)

\* C24: in every adapter, listFiles returns one entry for each existing file
\* and each existing directory other than the root, never an entry for the
\* root, and the entries are in ascending lexicographic order of path.
C24_ListIsCompleteAndSorted ==
    ListsEveryEntryOnce /\ ListsNoRoot /\ ListsInLexicographicOrder

-----------------------------------------------------------------------------
(* Properties of readRaw *)

\* how readRaw of the path ends, and the text it returns when it succeeds
ReadRawOutcomeOf(p) == IF adapter = "ws" THEN WSReadRawOutcome(p) ELSE SecretReadRawOutcome(p)
ReadRawTextOf(p) == IF adapter = "ws" THEN WSReadRawText(p) ELSE SecretReadRawText(p)

\* C25: readRaw(p) fails with NotFound whenever p is missing or p is a
\* directory, and returns the stored text only when p is a file.
C25_ReadRawFailsOffFiles ==
    \A p \in SlashPaths :
        /\ (FullPathOf(p) \notin FilesHeld \/ FullPathOf(p) \in DirectoriesHeld)
               => ReadRawOutcomeOf(p) = "NotFound"
        /\ ReadRawOutcomeOf(p) = "ok"
               => /\ FullPathOf(p) \in FilesHeld
                  /\ adapter = "ws" => ReadRawTextOf(p) = files.v[FullPathOf(p)].content

\* no path is held both as a file and as a directory
OneKindHeld == FilesHeld \cap DirectoriesHeld = {}

\* C25 in the states in which every path is of one kind
ReadRawFailsOffFilesOfOneKind == OneKindHeld => C25_ReadRawFailsOffFiles

-----------------------------------------------------------------------------
(* Properties of the pins *)

\* the paths a rename of the path gives a new name: the path alone when a
\* file is held at it, else the files and directories at or under it
Renamed(fullPath) ==
    IF fullPath \in FilesHeld THEN {fullPath}
    ELSE {key \in FilesHeld \cup DirectoriesHeld : AtOrUnder(key, fullPath)}

\* C26: for every path whose name changes in a successful rename (the
\* renamed file, or the renamed directory with each of its descendant files
\* and directories), if the path was pinned before the rename then afterwards
\* its new path is pinned and its old path is not.  The renames are those to
\* a path neither at or under the old one nor above it.
C26_RenameMovesPins ==
    [][\A p \in PinPaths, q \in PinPaths :
           (/\ last'.op = "rename" /\ last'.outcome = "ok"
            /\ ~AtOrUnder(FullPathOf(q), FullPathOf(p))
            /\ ~AtOrUnder(FullPathOf(p), FullPathOf(q))
            /\ Rename(p, q) \/ SecretRename(p, q))
               => \A key \in Renamed(FullPathOf(p)) \cap pinned :
                      /\ Remapped(key, FullPathOf(p), FullPathOf(q)) \in pinned'
                      /\ key \notin pinned']_vars

\* C26 for the files alone
RenameMovesPinsOfFiles ==
    [][\A p \in PinPaths, q \in PinPaths :
           (/\ last'.op = "rename" /\ last'.outcome = "ok"
            /\ ~AtOrUnder(FullPathOf(q), FullPathOf(p))
            /\ ~AtOrUnder(FullPathOf(p), FullPathOf(q))
            /\ Rename(p, q) \/ SecretRename(p, q))
               => \A key \in Renamed(FullPathOf(p)) \cap FilesHeld \cap pinned :
                      /\ Remapped(key, FullPathOf(p), FullPathOf(q)) \in pinned'
                      /\ key \notin pinned']_vars

-----------------------------------------------------------------------------
(* The tool's calls and the activity log *)

\* this step put one entry at the front of the log, with this success flag,
\* and left the entries before it as they were, the oldest falling off a
\* full log
OneEntryLogged(success) ==
    /\ Len(logs') = (IF Len(logs) < MaxLogs THEN Len(logs) + 1 ELSE MaxLogs)
    /\ logs'[1].success = success
    /\ \A i \in 2..Len(logs') : logs'[i] = logs[i - 1]

\* C28: every invoke call made with a workspace folder open returns a tool
\* result and does not throw, and puts exactly one entry in the activity
\* log, whose success flag is true exactly when the storage call completed
\* without error (an unknown command makes no storage call and logs a failure)
C28_InvokeReturnsAndLogsOnce ==
    [][\A params \in ToolCalls :
           (Invoke(params) \/ InvokeUnknown(params)) =>
               /\ hostOut' = [fn |-> "invoke", outcome |-> "result"]
               /\ OneEntryLogged(/\ params.command \in ToolCommands
                                 /\ last'.op = params.command
                                 /\ last'.outcome = "ok")]_vars

\* a rename that the storage refused has been logged as a failure in front
\* of a call that was logged as a success, and the log is full
C28_Witness ==
    /\ hostOut = [fn |-> "invoke", outcome |-> "result"]
    /\ last.op = "rename"
    /\ last.outcome # "ok"
    /\ Len(logs) = MaxLogs
    /\ logs[1].command = "rename"
    /\ ~logs[1].success
    /\ logs[2].success

-----------------------------------------------------------------------------
(* The mirror in AGENTS.md *)

\* C29: syncToAgentsMd never throws or rejects, whatever error the storage
\* listing, the read of AGENTS.md or the write of it raises: the call
\* resolves, and no failure of a memory operation is logged for it
C29_SyncNeverRejects ==
    [][\A isEnabled \in BOOLEAN, fault \in SyncFaults :
           SyncToAgentsMd(isEnabled, fault) =>
               /\ hostOut' = [fn |-> "syncToAgentsMd", outcome |-> "resolved"]
               /\ logs' = logs]_vars

\* a sync has resolved after an error inside it: a memory file is held that
\* the AGENTS.md written by an earlier sync does not show
C29_Witness ==
    /\ hostOut = [fn |-> "syncToAgentsMd", outcome |-> "resolved"]
    /\ agentsMd.exists
    /\ FilesHeld \ agentsMd.mirrored # {}
    /\ last.op \in {"listFiles", "readRaw"}

-----------------------------------------------------------------------------
(* The Clear All Memory Files command *)

\* this step is the one on which a clearAllMemoryFiles call resolves
ClearAllCompletes ==
    /\ hostOut' # hostOut
    /\ hostOut'.fn = "clearAllMemoryFiles"
    /\ hostOut'.outcome = "resolved"

\* C30: after clearAllMemoryFiles has completed without error, the storage
\* holds no memory file and no directory but the root: its listing is empty
C30_ClearAllLeavesNothing ==
    [][ClearAllCompletes => StorageListFiles' = <<>>]_vars

-----------------------------------------------------------------------------
(* The activity log *)

\* the smaller of two numbers
Min(a, b) == IF a < b THEN a ELSE b

\* C31: after any sequence of log and clear calls the activity log holds at
\* most maxLogs entries, newest first, and they are exactly the most recent
\* min(n, maxLogs) of the n entries logged since the last clear
C31_LogKeepsTheNewest ==
    /\ Len(logs) <= MaxLogs
    /\ logs = SubSeq(logged, 1, Min(Len(logged), MaxLogs))
    /\ \A i \in 1..Len(logs) - 1 : logs[i].timestamp >= logs[i + 1].timestamp

\* more entries have been logged since the last clear than the log keeps,
\* at different times
C31_Witness ==
    /\ Len(logged) > MaxLogs
    /\ Len(logs) = MaxLogs
    /\ logs[1].timestamp > logs[MaxLogs].timestamp
    /\ logged[Len(logged)] \notin {logs[i] : i \in 1..Len(logs)}

-----------------------------------------------------------------------------
(* The walk up the ancestors *)

\* no path is longer than this, so a walk that shortens its path at every
\* call makes fewer calls than this
MaxWalk == MaxPathLen + 1

\* the walk from the path ends before MaxWalk calls, it comes to no path
\* twice, and every path it comes to is the root or under it
WalkStops(dirs, fullPath) ==
    LET walk == AncestorWalk(dirs, fullPath, MaxWalk)
    IN  /\ Len(walk) < MaxWalk
        /\ \A i, j \in 1..Len(walk) : walk[i] = walk[j] => i = j
        /\ \A i \in 1..Len(walk) : AtOrUnder(walk[i], MEMORIES_DIR)

\* C32: for every path validation accepts, the ancestor materialization of
\* create and rename terminates: it visits each proper ancestor at most once
\* and stops at the root
C32_AncestorWalkStops ==
    [][/\ \A p \in AncestorPaths, c \in Contents :
              (Accepts(p) /\ Create(p, c))
                  => WalkStops(directories, FullPathOf(p)) /\ last'.outcome # "RangeError"
       /\ \A p, q \in AncestorPaths :
              (Accepts(p) /\ Accepts(q) /\ Rename(p, q))
                  => WalkStops(directories, FullPathOf(q)) /\ last'.outcome # "RangeError"]_vars

\* the same for the paths under the root, while the root is a directory
WalkStopsUnderRoot ==
    [][\A p \in AncestorPaths, c \in Contents :
           (/\ Accepts(p)
            /\ FullPathOf(p) # MEMORIES_DIR
            /\ AtOrUnder(FullPathOf(p), MEMORIES_DIR)
            /\ MEMORIES_DIR \in KnownDirectories
            /\ Create(p, c))
               => WalkStops(directories, FullPathOf(p)) /\ last'.outcome # "RangeError"]_vars

-----------------------------------------------------------------------------
(* Renames of what is not there, and of an entry to itself *)

\* the files, the directories and everything kept about them
Holdings == <<wsVars, secVars, pinned>>

\* C33: rename(old, new) with nothing at old, neither a file nor a
\* directory, fails with NotFound and leaves the files, the directories and
\* all metadata as they were
C33_RenameOfNothingChangesNothing ==
    [][\A p \in PinPaths, q \in PinPaths :
           (/\ FullPathOf(p) \notin FilesHeld \cup DirectoriesHeld
            /\ Rename(p, q) \/ SecretRename(p, q))
               => last'.outcome = "NotFound" /\ Holdings' = Holdings]_vars

\* the same of SecretMemoryStorage alone
SecretRenameOfNothingChangesNothing ==
    [][\A p \in PinPaths, q \in PinPaths :
           (/\ FullPathOf(p) \notin FilesHeld \cup DirectoriesHeld
            /\ SecretRename(p, q))
               => last'.outcome = "NotFound" /\ Holdings' = Holdings]_vars

\* the same with only the outcome asked for
RenameOfNothingFails ==
    [][\A p \in PinPaths, q \in PinPaths :
           (/\ FullPathOf(p) \notin FilesHeld \cup DirectoriesHeld
            /\ Rename(p, q) \/ SecretRename(p, q))
               => last'.outcome = "NotFound"]_vars

\* everything held at the path or under it before this step is held after
\* it, and every file there that could be read reads the same
SubtreeKept(fullPath) ==
    /\ \A key \in FilesHeld : AtOrUnder(key, fullPath) => key \in FilesHeld'
    /\ \A key \in DirectoriesHeld : AtOrUnder(key, fullPath) => key \in DirectoriesHeld'
    /\ \A key \in FilesHeld :
           (AtOrUnder(key, fullPath) /\ ReadRawOutcomeOf(key) = "ok")
               => ReadRawOutcomeOf(key)' = "ok" /\ ReadRawTextOf(key)' = ReadRawTextOf(key)

\* C34: rename(old, new) with old and new addressing the same existing
\* entry, the paths being identical or differing by a trailing '/', loses
\* nothing: the file or the directory subtree is still there afterwards with
\* the same content
C34_RenameToItselfLosesNothing ==
    [][\A p \in SlashPaths, q \in SlashPaths :
           (/\ FullPathOf(p) = FullPathOf(q)
            /\ FullPathOf(p) \in FilesHeld \cup DirectoriesHeld
            /\ Rename(p, q) \/ SecretRename(p, q))
               => SubtreeKept(FullPathOf(p))]_vars

\* the same of SecretMemoryStorage alone
SecretRenameToItselfLosesNothing ==
    [][\A p \in SlashPaths, q \in SlashPaths :
           (/\ FullPathOf(p) = FullPathOf(q)
            /\ FullPathOf(p) \in FilesHeld \cup DirectoriesHeld
            /\ SecretRename(p, q))
               => SubtreeKept(FullPathOf(p))]_vars


-----------------------------------------------------------------------------
(* Properties of the metadata maps of the workspace-state store *)

\* the paths with an access time, a modification time or a summary
StampedPaths == DOMAIN accessTimes \cup DOMAIN modifiedTimes \cup DOMAIN tldrs

\* C37: in the workspace-state adapter, after any sequence of calls, the
\* access-time, modify-time and summary maps hold entries only for paths
\* that are a file or a directory of the store.
C37_MetadataOnlyOfEntries ==
    adapter = "ws" => StampedPaths \subseteq ExistingFiles \cup KnownDirectories

\* the same of the modification times alone
ModifyTimesOnlyOfEntries ==
    adapter = "ws" => DOMAIN modifiedTimes \subseteq ExistingFiles \cup KnownDirectories


-----------------------------------------------------------------------------
(* Properties of what view and readRaw leave alone *)

\* a view or readRaw call on memoryPath, on either adapter
ReadCall(memoryPath) ==
    \/ View(memoryPath)
    \/ ReadRaw(memoryPath)
    \/ SecretView(memoryPath)
    \/ SecretReadRaw(memoryPath)

\* the step changes no access time but that of memoryPath
OnlyAccessOf(memoryPath) ==
    /\ \A k \in (DOMAIN accessTimes \cup DOMAIN accessTimes')
                    \ (IF Accepts(memoryPath) THEN {FullPathOf(memoryPath)} ELSE {}) :
          /\ k \in DOMAIN accessTimes \cap DOMAIN accessTimes'
          /\ accessTimes'[k] = accessTimes[k]
    /\ metadata'.k = metadata.k
    /\ DOMAIN metadata'.v = DOMAIN metadata.v
    /\ \A k \in DOMAIN metadata.v :
          \/ metadata'.v[k] = metadata.v[k]
          \/ /\ Accepts(memoryPath)
             /\ k = FullPathOf(memoryPath)
             /\ [metadata'.v[k] EXCEPT !.accessed = metadata.v[k].accessed] = metadata.v[k]

\* the step changes no content, no file or directory set, no modification
\* time, no summary and no pin
ContentsKept ==
    UNCHANGED <<files, directories, modifiedTimes, tldrs, secrets, secretTldrs, pinned>>

\* memoryPath is a file or a directory of the store
IsEntry(memoryPath) ==
    /\ Accepts(memoryPath)
    /\ IF adapter = "ws"
       THEN FullPathOf(memoryPath) \in ExistingFiles \cup KnownDirectories
       ELSE Has(metadata, FullPathOf(memoryPath))

\* C38: view and readRaw, whether they succeed or fail, change no file's
\* content, no set of files or directories, no modification time and no pin;
\* all they may change is the access time of the entry they read.
C38_ReadsOnlyTouchTheEntry ==
    [][\A memoryPath \in MetaPaths :
          ReadCall(memoryPath)
              => /\ ContentsKept
                 /\ OnlyAccessOf(memoryPath)
                 /\ (accessTimes' # accessTimes \/ metadata' # metadata)
                        => IsEntry(memoryPath)]_vars

\* the same without the demand that the path read is an entry
ReadsOnlyTouchThePath ==
    [][\A memoryPath \in MetaPaths :
          ReadCall(memoryPath) => ContentsKept /\ OnlyAccessOf(memoryPath)]_vars


-----------------------------------------------------------------------------
(* Properties of the line range insertAtLine reports *)

\* C39: the line numbers the InvalidLine message reports as valid (1 through
\* the line count + 1) are the line numbers insertAtLine accepts: each of
\* them is accepted and every other line number is rejected.
C39_ReportedRangeIsAccepted ==
    textOut.fn = "insertAtLine"
        => (textOut.result.outcome = "ok"
                <=> textIn.lineNumber \in InvalidLineValidRange(textIn.text))

\* the line numbers accepted are 0 through the line count
InsertAcceptsUpToLineCount ==
    textOut.fn = "insertAtLine"
        => (textOut.result.outcome = "ok"
                <=> textIn.lineNumber \in 0..LineCount(textIn.text))

====
